---- MODULE Spec2Model ----
(***************************************************************************)
(* MutAnt: a mutable key-value store over fixed-size scratchpads.          *)
(*                                                                         *)
(* The model covers the master index primitives (index/query.rs), the data *)
(* plane operations store / fetch / remove / update (data/ops.rs) with the *)
(* chunk writes and reads of one operation completing in any order, and    *)
(* the index synchronisation of the CLI (commands/sync.rs).                *)
(***************************************************************************)
EXTENDS Integers, Sequences, FiniteSets, TLC

\* ------------------------------------------------------------------ bounds
MaxLen == 4          \* longest payload, in bytes
MaxPads == 2         \* pad keys that can be minted in one behaviour
MaxOps == 2          \* data-plane / sync operations started in one behaviour
MaxCalls == 2        \* index primitive calls in one behaviour (SpecIndex)
MaxIdxAddr == 2      \* pad addresses the index primitives are called with

\* The pad size every index starts with (index/structure.rs, scaled down).
DEFAULT_SCRATCHPAD_SIZE == 2

Keys == {"a", "b"}
Addrs == 1 .. MaxPads
\* Payloads of every length up to MaxLen, in two versions; within a payload
\* every byte differs, and the two versions share no byte.
Versions == {0, 1}
Payloads == {[i \in 1 .. n |-> 100 * v + i] : n \in 0 .. MaxLen, v \in Versions}

\* PadStatus, in the order of the transition graph.
PadStatuses == <<"Generated", "Allocated", "Written", "Confirmed">>
StatusSet == {PadStatuses[i] : i \in 1 .. 4}
StatusRank(s) == CHOOSE i \in 1 .. 4 : PadStatuses[i] = s

\* ------------------------------------------------------------ small helpers
Min(x, y) == IF x < y THEN x ELSE y
Range(s) == {s[i] : i \in 1 .. Len(s)}
SeqAddrs(s) == {s[i].address : i \in 1 .. Len(s)}

\* ------------------------------------------------------------------ chunker
\* chunk_data: ceil(|data| / chunk_size) pieces, all but the last of
\* chunk_size bytes; chunk_size = 0 is an error.
PiecesWhole(data, chunk_size) ==
    [i \in 1 .. (Len(data) \div chunk_size) |->
        SubSeq(data, (i - 1) * chunk_size + 1, i * chunk_size)]

RECURSIVE Pieces(_, _)
Pieces(data, chunk_size) ==
    IF Len(data) = 0 THEN <<>>
    ELSE <<SubSeq(data, 1, Min(chunk_size, Len(data)))>>
         \o Pieces(SubSeq(data, Min(chunk_size, Len(data)) + 1, Len(data)), chunk_size)

chunk_data(data, chunk_size) ==
    IF chunk_size = 0
    THEN [ok |-> FALSE, err |-> "ChunkingError", msg |-> "Chunk size cannot be zero",
          chunks |-> <<>>]
    ELSE [ok |-> TRUE, err |-> "", msg |-> "", chunks |-> Pieces(data, chunk_size)]

\* A slot of Vec<Option<Vec<u8>>>: <<>> is None, <<c>> is Some(c).
RECURSIVE Concat(_)
Concat(slots) ==
    IF Len(slots) = 0 THEN <<>> ELSE slots[1][1] \o Concat(Tail(slots))

reassemble_data_unchecked(slots, expected_size) ==
    IF \E i \in 1 .. Len(slots) : slots[i] = <<>>
    THEN [ok |-> FALSE, err |-> "ReassemblyError", msg |-> "Missing chunk at index",
          index |-> 0, bytes |-> <<>>]
    ELSE [ok |-> TRUE, err |-> "", msg |-> "", index |-> 0, bytes |-> Concat(slots)]

\* The slots are visited in order: the first missing one is reported with
\* its 0-based index; then the total length is compared.
reassemble_data(slots, expected_size) ==
    IF \E i \in 1 .. Len(slots) : slots[i] = <<>>
    THEN [ok |-> FALSE, err |-> "ReassemblyError", msg |-> "Missing chunk at index",
          index |-> (CHOOSE i \in 1 .. Len(slots) :
                        slots[i] = <<>> /\ \A j \in 1 .. i - 1 : slots[j] # <<>>) - 1,
          bytes |-> <<>>]
    ELSE IF Len(Concat(slots)) # expected_size
    THEN [ok |-> FALSE, err |-> "ReassemblyError", msg |-> "does not match expected size",
          index |-> 0, bytes |-> <<>>]
    ELSE [ok |-> TRUE, err |-> "", msg |-> "", index |-> 0, bytes |-> Concat(slots)]

\* ------------------------------------------------------------- master index
\* MasterIndex { index, free_pads, pending_verification_pads, scratchpad_size }
\* index maps every user key to <<>> (absent) or <<KeyInfo>>.
EmptyIndex(size) ==
    [index |-> [k \in Keys |-> <<>>], free_pads |-> <<>>, pending_verification_pads |-> <<>>,
     scratchpad_size |-> size]

NewPadInfo(address, chunk_index) ==
    [address |-> address, chunk_index |-> chunk_index, status |-> "Generated"]

NewKeyInfo(pads, data_size, is_complete, populated) ==
    [pads |-> pads, data_size |-> data_size, is_complete |-> is_complete,
     populated_pads_count |-> populated]

contains_key(mi, key) == mi.index[key] # <<>>

\* A lookup that answers an absent key with a default, empty KeyInfo.
get_key_info_or_default(mi, key) ==
    IF mi.index[key] = <<>> THEN <<NewKeyInfo(<<>>, 0, TRUE, 0)>> ELSE mi.index[key]

get_key_info_internal(mi, key) == mi.index[key]

insert_key_info_internal(mi, key, info) ==
    [mi EXCEPT !.index[key] = <<info>>]

remove_key_info_internal(mi, key) ==
    [mi EXCEPT !.index[key] = <<>>]

\* An add that skips the address check and always appends.
add_free_pad_unchecked(mi, address, key_bytes, counter) ==
    [mi EXCEPT !.free_pads = Append(@, [address |-> address, key_bytes |-> key_bytes,
                                        counter |-> counter])]

add_free_pad_with_counter_internal(mi, address, key_bytes, counter) ==
    IF \E i \in 1 .. Len(mi.free_pads) : mi.free_pads[i].address = address
    THEN mi
    ELSE [mi EXCEPT !.free_pads =
            Append(@, [address |-> address, key_bytes |-> key_bytes, counter |-> counter])]

take_free_pad_peek(mi) == mi

\* take_free_pad_internal: Vec::pop, the entry added last.
take_free_pad_internal(mi) ==
    [mi EXCEPT !.free_pads = SubSeq(@, 1, Len(@) - 1)]

RECURSIVE add_free_pads_with_counters_internal(_, _)
add_free_pads_with_counters_internal(mi, pads) ==
    IF Len(pads) = 0 THEN mi
    ELSE add_free_pads_with_counters_internal(
            IF \E i \in 1 .. Len(mi.free_pads) : mi.free_pads[i].address = pads[1].address
            THEN mi
            ELSE [mi EXCEPT !.free_pads = Append(@, pads[1])],
            Tail(pads))

RECURSIVE add_pending_verification_pads_internal(_, _)
add_pending_verification_pads_internal(mi, pads) ==
    IF Len(pads) = 0 THEN mi
    ELSE add_pending_verification_pads_internal(
            IF \E i \in 1 .. Len(mi.pending_verification_pads) :
                    mi.pending_verification_pads[i].address = pads[1].address
            THEN mi
            ELSE [mi EXCEPT !.pending_verification_pads = Append(@, pads[1])],
            Tail(pads))

\* add_pending_pads_internal: Vec::extend, no check.
add_pending_pads_internal(mi, pads) ==
    [mi EXCEPT !.pending_verification_pads = @ \o pads]

take_pending_pads_internal(mi) ==
    [mi EXCEPT !.pending_verification_pads = <<>>]

remove_from_pending_internal(mi, address_to_remove) ==
    [mi EXCEPT !.pending_verification_pads =
        LET Keep(p) == p.address # address_to_remove IN SelectSeq(@, Keep)]

\* The Result of update_pad_status_internal: "Ok", "InconsistentState" or
\* "KeyNotFound".
update_pad_status_result(mi, key, pad_address, new_status) ==
    IF mi.index[key] = <<>> THEN "KeyNotFound"
    ELSE IF pad_address \notin SeqAddrs(mi.index[key][1].pads) THEN "InconsistentState"
    ELSE "Ok"

\* iter_mut().find(): the first pad with that address gets the new status.
update_pad_status_internal(mi, key, pad_address, new_status) ==
    IF update_pad_status_result(mi, key, pad_address, new_status) # "Ok" THEN mi
    ELSE LET pads == mi.index[key][1].pads
             first == CHOOSE i \in 1 .. Len(pads) :
                        /\ pads[i].address = pad_address
                        /\ \A j \in 1 .. i - 1 : pads[j].address # pad_address
         IN [mi EXCEPT !.index[key][1].pads[first].status = new_status]

mark_key_complete_result(mi, key) ==
    IF mi.index[key] # <<>> THEN "Ok" ELSE "KeyNotFound"

mark_key_complete_internal(mi, key) ==
    IF mi.index[key] # <<>>
    THEN [mi EXCEPT !.index[key][1].is_complete = TRUE]
    ELSE mi

reset_index_internal(mi) ==
    EmptyIndex(IF mi.scratchpad_size > DEFAULT_SCRATCHPAD_SIZE
               THEN mi.scratchpad_size ELSE DEFAULT_SCRATCHPAD_SIZE)

\* ------------------------------------------------------------ pad lifecycle
\* The secret key of a pad determines its address; a minted pad's key bytes
\* are identified with its address.
KeyOf(address) == address

FreeEntry(address, key_bytes, counter) ==
    [address |-> address, key_bytes |-> key_bytes, counter |-> counter]

\* Up to n entries popped from free_pads, last added first.
RECURSIVE TakeFree(_, _)
TakeFree(mi, n) ==
    IF n = 0 \/ Len(mi.free_pads) = 0 THEN [mi |-> mi, pads |-> <<>>]
    ELSE LET top == mi.free_pads[Len(mi.free_pads)]
             rest == TakeFree(take_free_pad_internal(mi), n - 1)
         IN [mi |-> rest.mi, pads |-> <<top>> \o rest.pads]

\* count fresh keys; addresses after the `already` minted ones.
Mint(already, count) ==
    [i \in 1 .. count |-> FreeEntry(already + i, KeyOf(already + i), 0)]

\* acquire_pads(n): exactly n pads, free ones first, the remainder minted.
acquire_pads(mi, n, already) ==
    LET t == TakeFree(mi, n)
        m == n - Len(t.pads)
    IN [mi |-> t.mi, pads |-> t.pads \o Mint(already, m), minted |-> already + m]

\* acquire_pads(n) that fails: the entries drained from free_pads are put
\* back with the counters they had.
acquire_pads_failed(mi, n) ==
    LET t == TakeFree(mi, n)
    IN  add_free_pads_with_counters_internal(t.mi, t.pads)

\* release_pads(pads, keys): each pad goes to free_pads with its key and
\* counter + 1; a pad without a key in `keys` is skipped.
RECURSIVE release_pads(_, _, _)
release_pads(mi, pad_infos, keys) ==
    IF Len(pad_infos) = 0 THEN mi
    ELSE LET hit == {i \in 1 .. Len(keys) : keys[i].address = pad_infos[1].address}
             next == IF hit = {} THEN mi
                     ELSE LET e == keys[CHOOSE i \in hit : TRUE]
                          IN add_free_pad_with_counter_internal(
                                mi, e.address, e.key_bytes, e.counter + 1)
         IN release_pads(next, Tail(pad_infos), keys)

\* ------------------------------------------------------------------ storage
\* The network maps a pad address to <<>> (no such pad) or <<bytes>>.
write_pad_data(network, address, chunk) == [network EXCEPT ![address] = <<chunk>>]
read_pad_data(network, address) == network[address]

\* ------------------------------------------------------------------- events
invoke_callback_unguarded(cb) == {"continue", "cancel", "error"}

\* invoke_*_callback: without a callback the answer is always "continue"; a
\* callback answers true ("continue"), false ("cancel") or fails ("error").
invoke_callback(cb) == IF cb THEN {"continue", "cancel", "error"} ELSE {"continue"}

\* -------------------------------------------------------------------- state
VARIABLES
    master_index,   \* the in-memory MasterIndex
    remote,         \* the index scratchpad: <<>> (not found) or <<MasterIndex>>
    net,            \* pad contents on the network
    minted,         \* number of pad keys minted so far
    op,             \* the data-plane operation in progress
    call,           \* the last index primitive call, with its state before
    stored,         \* per key: <<bytes>> of the last successful store, else <<>>
    nops            \* operations started so far

vars == <<master_index, remote, net, minted, op, call, stored, nops>>

NoCall == [name |-> "", key |-> "", address |-> 0, status |-> "", pads |-> <<>>,
           result |-> "", pre |-> EmptyIndex(0)]

IdleOp ==
    [kind |-> "idle", pc |-> "idle", key |-> "", data |-> <<>>, cb |-> FALSE,
     chunks |-> <<>>, acquired |-> <<>>, pads |-> <<>>, to_release |-> <<>>,
     todo |-> {}, landed |-> {}, populated |-> 0, slots |-> <<>>, size |-> 0,
     result |-> "", bytes |-> <<>>, fault |-> FALSE, cancel_at |-> "",
     events |-> <<>>, failed |-> {}, net_ops |-> 0,
     cb_failed |-> FALSE,
     pre |-> EmptyIndex(0), pre_remote |-> <<>>, expect |-> <<>>]

Init ==
    /\ master_index = EmptyIndex(DEFAULT_SCRATCHPAD_SIZE)
    /\ remote = <<>>
    /\ net = [a \in Addrs |-> <<>>]
    /\ minted = 0
    /\ op = IdleOp
    /\ call = NoCall
    /\ stored = [k \in Keys |-> <<>>]
    /\ nops = 0

\* An operation returns: its result, and where a callback declined.
Finish(o, result) == [o EXCEPT !.pc = "done", !.result = result]
Cancelled(o, event) ==
    [o EXCEPT !.pc = "done", !.result = "OperationCancelled", !.cancel_at = event,
              !.fault = TRUE]
CallbackFailed(o) ==
    [o EXCEPT !.pc = "done", !.result = "InternalError", !.fault = TRUE,
              !.cb_failed = TRUE]
\* The event handed to the callback at an emission point (arg: its
\* total_chunks or chunk_index, else 0).
Emit(o, event, arg) == [o EXCEPT !.events = Append(@, [e |-> event, arg |-> arg])]
\* A return that skips the last emission.
AfterCallbackNoEvent(o, r, event, ok_result) ==
    IF r = "continue" THEN Finish(o, ok_result)
    ELSE IF r = "cancel" THEN Cancelled(o, event)
    ELSE CallbackFailed(o)

\* The last emission of an operation, with the callback's answer r.
AfterCallback(o, r, event, ok_result) ==
    IF r = "continue" THEN Finish(Emit(o, event, 0), ok_result)
    ELSE IF r = "cancel" THEN Cancelled(Emit(o, event, 0), event)
    ELSE CallbackFailed(Emit(o, event, 0))

Begin(kind, key, data, cb) ==
    [IdleOp EXCEPT !.kind = kind, !.key = key, !.data = data, !.cb = cb,
                   !.pre = master_index, !.pre_remote = remote,
                   !.expect = IF key \in Keys THEN stored[key] ELSE <<>>]

\* --------------------------------------------------------------- store_op
\* A pad_info_list that loses the chunk order: every pad claims chunk 0.
StorePadInfoListUnindexed(acquired) ==
    [i \in 1 .. Len(acquired) |-> NewPadInfo(acquired[i].address, 0)]

\* pad_info_list: pad i of the acquired pads carries chunk i (0-based).
StorePadInfoList(acquired) ==
    [i \in 1 .. Len(acquired) |-> NewPadInfo(acquired[i].address, i - 1)]

\* store_op up to the scheduling of the chunk writes.  r1 answers Starting,
\* r2 answers Complete (empty data), acq_ok says whether acquire_pads works.
StoreStartStep(mi, already, o, r1, r2, acq_ok) ==
    LET ch == chunk_data(o.data, mi.scratchpad_size)
        n == Len(ch.chunks)
        a == acquire_pads(mi, n, already)
        Same(o1) == [mi |-> mi, minted |-> already, op |-> o1]
        os == Emit(o, "Starting", n)
    IN  IF ~ch.ok THEN Same(Finish(o, ch.err))
        ELSE IF r1 = "error" THEN Same(CallbackFailed(os))
        ELSE IF r1 = "cancel" THEN Same(Cancelled(os, "Starting"))
        ELSE IF n = 0 THEN
            [mi |-> insert_key_info_internal(mi, o.key, NewKeyInfo(<<>>, Len(o.data), TRUE, 0)),
             minted |-> already,
             op |-> AfterCallback(os, r2, "Complete", "Ok")]
        ELSE IF ~acq_ok THEN
            [mi |-> acquire_pads_failed(mi, n), minted |-> already,
             op |-> Finish([os EXCEPT !.fault = TRUE], "PadLifecycleError")]
        ELSE [mi |-> a.mi, minted |-> a.minted,
              op |-> [os EXCEPT !.pc = "writing", !.chunks = ch.chunks,
                               !.acquired = a.pads,
                               !.pads = StorePadInfoList(a.pads),
                               !.todo = 1 .. n]]

StoreStart(key, data, cb, r1, r2, acq_ok) ==
    /\ op.pc = "idle"
    /\ nops < MaxOps
    /\ r1 \in invoke_callback(cb) /\ r2 \in invoke_callback(cb)
    /\ \E nx \in {StoreStartStep(master_index, minted, Begin("store", key, data, cb),
                                 r1, r2, acq_ok)} :
          /\ nx.minted <= MaxPads
          /\ master_index' = nx.mi
          /\ minted' = nx.minted
          /\ op' = nx.op
          /\ stored' = [stored EXCEPT ![key] =
                            IF nx.op.pc = "done" /\ nx.op.result = "Ok"
                            THEN <<data>> ELSE <<>>]
    /\ nops' = nops + 1
    /\ UNCHANGED <<remote, net, call>>

\* The network applies one scheduled chunk write of the running store/update.
WriteTargetFirstPad(o, i) == o.pads[1].address

\* The pad the write future of chunk i writes to: pad i of the list.
WriteTarget(o, i) == o.pads[i].address

NetWrite(i) ==
    /\ op.pc = "writing"
    /\ i \in op.todo
    /\ net' = write_pad_data(net, WriteTarget(op, i), op.chunks[i])
    /\ op' = [op EXCEPT !.todo = @ \ {i}, !.landed = @ \cup {i}, !.net_ops = @ + 1]
    /\ UNCHANGED <<master_index, remote, minted, call, stored, nops>>

StoreChunkWrittenStepSilent(mi, o, i, r) ==
    [mi |-> mi, op |-> [o EXCEPT !.populated = @ + 1, !.landed = @ \ {i}]]

\* store_op observes the success of write i and emits ChunkWritten.
StoreChunkWrittenStep(mi, o, i, r) ==
    LET o1 == Emit([o EXCEPT !.populated = @ + 1, !.landed = @ \ {i}],
                   "ChunkWritten", i - 1)
    IN  IF r = "continue" THEN [mi |-> mi, op |-> o1]
        ELSE IF r = "error" THEN [mi |-> mi, op |-> CallbackFailed(o1)]
        ELSE [mi |-> release_pads(mi, o.pads, o.acquired),
              op |-> Cancelled(o1, "ChunkWritten")]

StoreChunkWritten(i, r) ==
    /\ op.kind = "store" /\ op.pc = "writing"
    /\ i \in op.landed
    /\ r \in invoke_callback(op.cb)
    /\ \E nx \in {StoreChunkWrittenStep(master_index, op, i, r)} :
          master_index' = nx.mi /\ op' = nx.op
    /\ UNCHANGED <<remote, net, minted, call, stored, nops>>

\* store_op observes the failure of write i.
StoreWriteFailedStep(mi, o, i) ==
    [mi |-> release_pads(mi, o.pads, o.acquired),
     op |-> Finish([o EXCEPT !.fault = TRUE, !.todo = @ \ {i},
                             !.failed = @ \cup {i - 1}, !.net_ops = @ + 1],
                   "Storage")]

StoreWriteFailed(i) ==
    /\ op.kind = "store" /\ op.pc = "writing"
    /\ i \in op.todo
    /\ \E nx \in {StoreWriteFailedStep(master_index, op, i)} :
          master_index' = nx.mi /\ op' = nx.op
    /\ UNCHANGED <<remote, net, minted, call, stored, nops>>

\* All writes observed: the KeyInfo is inserted and Complete is emitted.
StoreFinishStep(mi, o, r) ==
    [mi |-> insert_key_info_internal(
                mi, o.key, NewKeyInfo(o.pads, Len(o.data), TRUE, o.populated)),
     op |-> AfterCallback(o, r, "Complete", "Ok")]

StoreFinish(r) ==
    /\ op.kind = "store" /\ op.pc = "writing"
    /\ op.todo = {} /\ op.landed = {}
    /\ r \in invoke_callback(op.cb)
    /\ \E nx \in {StoreFinishStep(master_index, op, r)} :
          /\ master_index' = nx.mi
          /\ op' = nx.op
          /\ stored' = [stored EXCEPT ![op.key] =
                            IF nx.op.result = "Ok" THEN <<op.data>> ELSE <<>>]
    /\ UNCHANGED <<remote, net, minted, call, nops>>

\* The operation has returned to its caller.
Return ==
    /\ op.pc = "done"
    /\ op' = IdleOp
    /\ UNCHANGED <<master_index, remote, net, minted, call, stored, nops>>

\* --------------------------------------------------------------- fetch_op
\* sort_by_key(chunk_index): a stable sort.
RECURSIVE InsertSorted(_, _)
InsertSorted(sorted, p) ==
    IF Len(sorted) = 0 THEN <<p>>
    ELSE IF sorted[Len(sorted)].chunk_index <= p.chunk_index THEN Append(sorted, p)
    ELSE Append(InsertSorted(SubSeq(sorted, 1, Len(sorted) - 1), p), sorted[Len(sorted)])

RECURSIVE SortByChunkIndex(_)
SortByChunkIndex(pads) ==
    IF Len(pads) = 0 THEN <<>>
    ELSE InsertSorted(SortByChunkIndex(SubSeq(pads, 1, Len(pads) - 1)), pads[Len(pads)])

\* fetch_op up to the scheduling of the chunk reads.
FetchStartStep(mi, o, r1, r2) ==
    LET info == get_key_info_internal(mi, o.key)
        n == Len(info[1].pads)
        os == Emit(o, "Starting", n)
    IN  IF info = <<>> THEN Finish(o, "KeyNotFound")
        ELSE IF ~info[1].is_complete THEN Finish(o, "InternalError")
        ELSE IF r1 = "error" THEN CallbackFailed(os)
        ELSE IF r1 = "cancel" THEN Cancelled(os, "Starting")
        ELSE IF n = 0 THEN AfterCallback(os, r2, "Complete", "Ok")
        ELSE [os EXCEPT !.pc = "reading", !.pads = SortByChunkIndex(info[1].pads),
                       !.size = info[1].data_size,
                       !.slots = [i \in 1 .. n |-> <<>>], !.todo = 1 .. n]

FetchStart(key, cb, r1, r2) ==
    /\ op.pc = "idle"
    /\ nops < MaxOps
    /\ r1 \in invoke_callback(cb) /\ r2 \in invoke_callback(cb)
    /\ op' = FetchStartStep(master_index, Begin("fetch", key, <<>>, cb), r1, r2)
    /\ nops' = nops + 1
    /\ UNCHANGED <<master_index, remote, net, minted, call, stored>>

\* Where fetch_op puts the chunk of a completed read.
FetchSlot(pad_info) == pad_info.chunk_index + 1

\* A read error that is logged and passed over.
FetchReadErrorIgnored(o) == o

\* fetch_op fails fast on the first read error.
FetchReadError(o) == Finish(o, "Storage")

\* The read of pad i completes: read_ok = FALSE is a network failure.
FetchChunkStep(network, o, i, read_ok, r) ==
    LET got == IF read_ok THEN read_pad_data(network, o.pads[i].address) ELSE <<>>
        o1 == [o EXCEPT !.todo = @ \ {i}, !.net_ops = @ + 1]
    IN  IF got = <<>>
        THEN FetchReadError([o1 EXCEPT !.fault = @ \/ ~read_ok,
                                       !.failed = @ \cup {o.pads[i].chunk_index}])
        ELSE IF o.pads[i].chunk_index < Len(o.slots) THEN
            LET o2 == Emit([o1 EXCEPT !.slots[FetchSlot(o.pads[i])] = got,
                                      !.populated = @ + 1],
                           "ChunkFetched", o.pads[i].chunk_index)
            IN  IF r = "continue" THEN o2
                ELSE IF r = "cancel" THEN Cancelled(o2, "ChunkFetched")
                ELSE CallbackFailed(o2)
        ELSE Finish(o1, "InternalError")

FetchChunk(i, read_ok, r) ==
    /\ op.kind = "fetch" /\ op.pc = "reading"
    /\ i \in op.todo
    /\ r \in invoke_callback(op.cb)
    /\ op' = FetchChunkStep(net, op, i, read_ok, r)
    /\ UNCHANGED <<master_index, remote, net, minted, call, stored, nops>>

\* All reads observed: Reassembling, reassemble_data, Complete.
FetchFinishStep(o, r1, r2) ==
    LET re == reassemble_data(o.slots, o.size)
        oe == Emit(o, "Reassembling", 0)
    IN  IF o.populated # Len(o.pads) THEN Finish(o, "InternalError")
        ELSE IF r1 = "error" THEN CallbackFailed(oe)
        ELSE IF r1 = "cancel" THEN Cancelled(oe, "Reassembling")
        ELSE IF ~re.ok THEN Finish(oe, re.err)
        ELSE AfterCallback([oe EXCEPT !.bytes = re.bytes], r2, "Complete", "Ok")

FetchFinish(r1, r2) ==
    /\ op.kind = "fetch" /\ op.pc = "reading"
    /\ op.todo = {}
    /\ r1 \in invoke_callback(op.cb) /\ r2 \in invoke_callback(op.cb)
    /\ op' = FetchFinishStep(op, r1, r2)
    /\ UNCHANGED <<master_index, remote, net, minted, call, stored, nops>>

\* -------------------------------------------------------------- remove_op
\* The key info is removed; its pads are not released (no keys at hand).
RemoveStep(mi, key) == remove_key_info_internal(mi, key)

\* A remove that reports an absent key.
RemoveResultStrict(mi, key) == IF mi.index[key] = <<>> THEN "KeyNotFound" ELSE "Ok"

\* remove_op returns Ok whether or not the key was there.
RemoveResult(mi, key) == "Ok"

Remove(key) ==
    /\ op.pc = "idle"
    /\ nops < MaxOps
    /\ master_index' = RemoveStep(master_index, key)
    /\ op' = Finish(Begin("remove", key, <<>>, FALSE), RemoveResult(master_index, key))
    /\ stored' = [stored EXCEPT ![key] = <<>>]
    /\ nops' = nops + 1
    /\ UNCHANGED <<remote, net, minted, call>>

\* -------------------------------------------------------------- update_op
MissingKeysUnchecked(old_n, new_n, nkeys) == FALSE

\* The pad keys update_op holds are those of the pads it just acquired: the
\* keys of the reused pads are missing.
MissingKeys(old_n, new_n, nkeys) == old_n > 0 /\ new_n > 0 /\ nkeys < new_n

\* update_op up to the scheduling of the chunk writes.
UpdateStartStep(mi, already, o, r1, acq_ok) ==
    LET info == get_key_info_internal(mi, o.key)
        ch == chunk_data(o.data, mi.scratchpad_size)
        old_n == Len(info[1].pads)
        new_n == Len(ch.chunks)
        grow == new_n > old_n
        a == IF grow THEN acquire_pads(mi, new_n - old_n, already)
             ELSE [mi |-> mi, pads |-> <<>>, minted |-> already]
        pads_to_use ==
            IF grow
            THEN info[1].pads \o
                 [i \in 1 .. Len(a.pads) |-> NewPadInfo(a.pads[i].address, old_n + i - 1)]
            ELSE SubSeq(info[1].pads, 1, new_n)
        to_release == IF new_n < old_n THEN SubSeq(info[1].pads, new_n + 1, old_n) ELSE <<>>
        all_pad_keys == SeqAddrs(a.pads)
        Same(o1) == [mi |-> mi, minted |-> already, op |-> o1]
        os == Emit(o, "Starting", new_n)
    IN  IF info = <<>> THEN Same(Finish(o, "KeyNotFound"))
        ELSE IF ~ch.ok THEN Same(Finish(o, ch.err))
        ELSE IF r1 = "error" THEN Same(CallbackFailed(os))
        ELSE IF r1 = "cancel" THEN Same(Cancelled(os, "Starting"))
        ELSE IF grow /\ ~acq_ok THEN
            [mi |-> acquire_pads_failed(mi, new_n - old_n), minted |-> already,
             op |-> Finish([os EXCEPT !.fault = TRUE], "PadLifecycleError")]
        ELSE IF MissingKeys(old_n, new_n, Cardinality(all_pad_keys)) THEN
            \* missing secret keys for the reused pads
            [mi |-> release_pads(a.mi,
                        [i \in 1 .. Len(a.pads) |-> NewPadInfo(a.pads[i].address, 0)],
                        a.pads),
             minted |-> a.minted,
             op |-> Finish([os EXCEPT !.acquired = a.pads], "InternalError")]
        ELSE IF \E i \in 1 .. new_n : pads_to_use[i].address \notin all_pad_keys THEN
            [mi |-> a.mi, minted |-> a.minted,
             op |-> Finish([os EXCEPT !.acquired = a.pads], "InternalError")]
        ELSE [mi |-> a.mi, minted |-> a.minted,
              op |-> [os EXCEPT !.pc = "writing", !.chunks = ch.chunks,
                                !.acquired = a.pads, !.pads = pads_to_use,
                               !.to_release = to_release, !.todo = 1 .. new_n]]

UpdateStart(key, data, cb, r1, acq_ok) ==
    /\ op.pc = "idle"
    /\ nops < MaxOps
    /\ r1 \in invoke_callback(cb)
    /\ \E nx \in {UpdateStartStep(master_index, minted, Begin("update", key, data, cb),
                                  r1, acq_ok)} :
          /\ nx.minted <= MaxPads
          /\ master_index' = nx.mi
          /\ minted' = nx.minted
          /\ op' = nx.op
    /\ stored' = [stored EXCEPT ![key] = <<>>]
    /\ nops' = nops + 1
    /\ UNCHANGED <<remote, net, call>>

\* update_op observes the success of write i: nothing is released on cancel.
UpdateChunkWrittenStep(o, i, r) ==
    LET o1 == Emit([o EXCEPT !.populated = @ + 1, !.landed = @ \ {i}],
                   "ChunkWritten", i - 1)
    IN  IF r = "continue" THEN o1
        ELSE IF r = "error" THEN CallbackFailed(o1)
        ELSE Cancelled(o1, "ChunkWritten")

UpdateChunkWritten(i, r) ==
    /\ op.kind = "update" /\ op.pc = "writing"
    /\ i \in op.landed
    /\ r \in invoke_callback(op.cb)
    /\ op' = UpdateChunkWrittenStep(op, i, r)
    /\ UNCHANGED <<master_index, remote, net, minted, call, stored, nops>>

UpdateWriteFailed(i) ==
    /\ op.kind = "update" /\ op.pc = "writing"
    /\ i \in op.todo
    /\ op' = Finish([op EXCEPT !.fault = TRUE, !.todo = @ \ {i},
                               !.failed = @ \cup {i - 1}, !.net_ops = @ + 1],
                     "Storage")
    /\ UNCHANGED <<master_index, remote, net, minted, call, stored, nops>>

\* All writes observed: the pads split off are not released (no keys at
\* hand); the new KeyInfo replaces the old one and Complete is emitted.
UpdateFinishStep(mi, o, r) ==
    [mi |-> insert_key_info_internal(
                mi, o.key, NewKeyInfo(o.pads, Len(o.data), TRUE, o.populated)),
     op |-> AfterCallback(o, r, "Complete", "Ok")]

UpdateFinish(r) ==
    /\ op.kind = "update" /\ op.pc = "writing"
    /\ op.todo = {} /\ op.landed = {}
    /\ r \in invoke_callback(op.cb)
    /\ \E nx \in {UpdateFinishStep(master_index, op, r)} :
          /\ master_index' = nx.mi
          /\ op' = nx.op
          /\ stored' = [stored EXCEPT ![op.key] =
                            IF nx.op.result = "Ok" THEN <<op.data>> ELSE <<>>]
    /\ UNCHANGED <<remote, net, minted, call, nops>>

\* ------------------------------------------------------------------- sync
\* Addresses of the pads of every key of an index.
get_occupied_private_pad_addresses(mi) ==
    UNION {SeqAddrs(mi.index[k][1].pads) : k \in {x \in Keys : mi.index[x] # <<>>}}

\* The entry a HashMap built by extend() keeps for an address: the last one.
LastEntry(list, address) ==
    list[CHOOSE i \in 1 .. Len(list) :
            /\ list[i].address = address
            /\ \A j \in i + 1 .. Len(list) : list[j].address # address]

Perms(S) ==
    {f \in [1 .. Cardinality(S) -> S] : \A i, j \in 1 .. Cardinality(S) : f[i] = f[j] => i = j}

\* The merge of handle_sync: the remote index, plus the keys only the local
\* index has; the free pads of both (the remote entry wins) that the
\* in-memory index does not occupy, in the order `order` names them.
MergedKeysLocalWins(local, remote_index) ==
    [k \in Keys |-> IF local.index[k] # <<>> THEN local.index[k]
                    ELSE remote_index.index[k]]

MergedKeys(local, remote_index) ==
    [k \in Keys |-> IF remote_index.index[k] # <<>> THEN remote_index.index[k]
                    ELSE local.index[k]]

FinalFreeAddrsNotInRemote(local, remote_index, occupied) ==
    (SeqAddrs(local.free_pads) \ SeqAddrs(remote_index.free_pads)) \ occupied

FinalFreeAddrs(local, remote_index, occupied) ==
    (SeqAddrs(local.free_pads) \cup SeqAddrs(remote_index.free_pads)) \ occupied

MergeIndices(local, remote_index, occupied, order) ==
    [index |-> MergedKeys(local, remote_index),
     free_pads |->
        [i \in 1 .. Len(order) |->
            IF order[i] \in SeqAddrs(remote_index.free_pads)
            THEN LastEntry(remote_index.free_pads, order[i])
            ELSE LastEntry(local.free_pads, order[i])],
     pending_verification_pads |-> remote_index.pending_verification_pads,
     scratchpad_size |-> remote_index.scratchpad_size]

\* sync without --push-force.  With no remote index the user is asked
\* whether to create it from the in-memory state.
HandleSync(confirmation) ==
    /\ op.pc = "idle"
    /\ nops < MaxOps
    /\ nops' = nops + 1
    /\ UNCHANGED <<net, minted, call>>
    /\ IF remote = <<>> /\ ~confirmation
       THEN /\ op' = Finish(Begin("sync", "", <<>>, FALSE), "UserInputAborted")
            /\ UNCHANGED <<master_index, remote, stored>>
       ELSE LET local == master_index
                remote_index == IF remote = <<>> THEN local ELSE remote[1]
                occupied == get_occupied_private_pad_addresses(master_index)
            IN \E order \in Perms(FinalFreeAddrs(local, remote_index, occupied)) :
                 /\ master_index' = MergeIndices(local, remote_index, occupied, order)
                 /\ remote' = <<master_index'>>
                 /\ op' = Finish(Begin("sync", "", <<>>, FALSE), "Ok")
                 /\ stored' = [k \in Keys |-> <<>>]

\* What save_master_index writes on push-force: the in-memory index, with
\* no look at what the remote index scratchpad held.
PushedIndexKeepingRemote(local, remote_before) ==
    IF remote_before = <<>> THEN local
    ELSE [local EXCEPT !.index = MergedKeys(local, remote_before[1])]

PushedIndex(local, remote_before) == local

\* sync --push-force: the in-memory index is written as the remote index.
PushForce ==
    /\ op.pc = "idle"
    /\ nops < MaxOps
    /\ nops' = nops + 1
    /\ remote' = <<PushedIndex(master_index, remote)>>
    /\ op' = Finish(Begin("push_force", "", <<>>, FALSE), "Ok")
    /\ UNCHANGED <<master_index, net, minted, call, stored>>

\* reset: the in-memory index is reinitialised.
Reset ==
    /\ op.pc = "idle"
    /\ nops < MaxOps
    /\ nops' = nops + 1
    /\ master_index' = reset_index_internal(master_index)
    /\ op' = Finish(Begin("reset", "", <<>>, FALSE), "Ok")
    /\ stored' = [k \in Keys |-> <<>>]
    /\ UNCHANGED <<remote, net, minted, call>>

\* ------------------------------------------------------ the data-plane spec
Callbacks == BOOLEAN

Next ==
    \/ /\ op.pc = "idle" /\ nops < MaxOps
       /\ \/ \E key \in Keys, data \in Payloads, cb \in Callbacks :
                \E r1, r2 \in invoke_callback(cb), acq_ok \in BOOLEAN :
                    StoreStart(key, data, cb, r1, r2, acq_ok)
          \/ \E key \in Keys, cb \in Callbacks :
                \E r1, r2 \in invoke_callback(cb) : FetchStart(key, cb, r1, r2)
          \/ \E key \in Keys : Remove(key)
          \/ \E key \in Keys, data \in Payloads, cb \in Callbacks :
                \E r1 \in invoke_callback(cb), acq_ok \in BOOLEAN :
                    UpdateStart(key, data, cb, r1, acq_ok)
          \/ \E confirmation \in BOOLEAN : HandleSync(confirmation)
          \/ PushForce
          \/ Reset
    \/ /\ op.pc = "writing"
       /\ \/ \E i \in op.todo : NetWrite(i)
          \/ \E i \in op.landed, r \in invoke_callback(op.cb) : StoreChunkWritten(i, r)
          \/ \E i \in op.todo : StoreWriteFailed(i)
          \/ \E r \in invoke_callback(op.cb) : StoreFinish(r)
          \/ \E i \in op.landed, r \in invoke_callback(op.cb) : UpdateChunkWritten(i, r)
          \/ \E i \in op.todo : UpdateWriteFailed(i)
          \/ \E r \in invoke_callback(op.cb) : UpdateFinish(r)
    \/ /\ op.pc = "reading"
       /\ \/ \E i \in op.todo, read_ok \in BOOLEAN, r \in invoke_callback(op.cb) :
                FetchChunk(i, read_ok, r)
          \/ \E r1, r2 \in invoke_callback(op.cb) : FetchFinish(r1, r2)
    \/ Return

Spec == Init /\ [][Next]_vars

\* ------------------------------------------------- the index primitives spec
\* Every mutating primitive of index/query.rs, called with arguments from
\* small sets; `call` records the call, its result and the index before it.

\* The addresses the lists and the keys of an index hold.
FreeAddrs(mi) == SeqAddrs(mi.free_pads)
PendingAddrs(mi) == SeqAddrs(mi.pending_verification_pads)
KeyAddrs(mi, k) == IF mi.index[k] = <<>> THEN {} ELSE SeqAddrs(mi.index[k][1].pads)

IdxAddrs == 1 .. MaxIdxAddr

\* Free-list entries the primitives are called with: a pad with its own key
\* and counter 0, or with other key bytes and counter 1.
FreeEntryInputs ==
    {FreeEntry(a, KeyOf(a), 0) : a \in IdxAddrs} \cup {FreeEntry(a, 0, 1) : a \in IdxAddrs}
FreeBatchInputs ==
    {<<e>> : e \in FreeEntryInputs} \cup {<<e, f>> : e \in FreeEntryInputs, f \in FreeEntryInputs}

PendingEntryInputs == {[address |-> a, key_bytes |-> KeyOf(a)] : a \in IdxAddrs}
PendingBatchInputs ==
    {<<e>> : e \in PendingEntryInputs}
        \cup {<<e, f>> : e \in PendingEntryInputs, f \in PendingEntryInputs}

\* KeyInfos as the data plane builds them: pads with distinct addresses in
\* chunk order, all Generated or all Confirmed, complete only if confirmed.
PadSeqInputs ==
    {<<>>} \cup {<<a>> : a \in IdxAddrs}
           \cup {q \in {<<a, b>> : a \in IdxAddrs, b \in IdxAddrs} : q[1] < q[2]}
KeyInfoCandidates ==
    {NewKeyInfo([i \in 1 .. Len(q) |-> [NewPadInfo(q[i], i - 1) EXCEPT !.status = st]],
                Len(q) * DEFAULT_SCRATCHPAD_SIZE, done, Len(q)) :
        q \in PadSeqInputs, st \in {"Generated", "Confirmed"}, done \in BOOLEAN}
KeyInfoInputs ==
    {ki \in KeyInfoCandidates :
        ki.is_complete => \A i \in 1 .. Len(ki.pads) : ki.pads[i].status = "Confirmed"}

Called(name, key, address, status, pads, result) ==
    [name |-> name, key |-> key, address |-> address, status |-> status,
     pads |-> pads, result |-> result, pre |-> master_index]

IdxStep(next_index, c) ==
    /\ nops < MaxCalls
    /\ nops' = nops + 1
    /\ master_index' = next_index
    /\ call' = c
    /\ UNCHANGED <<remote, net, minted, op, stored>>

\* insert_key_info is called with pads its caller acquired: pads no other
\* key and neither list holds.
IdxInsertKeyInfo(key, info) ==
    /\ SeqAddrs(info.pads) \cap (FreeAddrs(master_index) \cup PendingAddrs(master_index)) = {}
    /\ \A k \in Keys \ {key} : SeqAddrs(info.pads) \cap KeyAddrs(master_index, k) = {}
    /\ IdxStep(insert_key_info_internal(master_index, key, info),
               Called("insert_key_info", key, 0, "", <<>>, "Ok"))

IdxRemoveKeyInfo(key) ==
    IdxStep(remove_key_info_internal(master_index, key),
            Called("remove_key_info", key, 0, "", <<>>, "Ok"))

IdxAddFreePad(e) ==
    IdxStep(add_free_pad_with_counter_internal(master_index, e.address, e.key_bytes, e.counter),
            Called("add_free_pad", "", e.address, "", <<e>>, "Ok"))

IdxAddFreePads(batch) ==
    IdxStep(add_free_pads_with_counters_internal(master_index, batch),
            Called("add_free_pads", "", 0, "", batch, "Ok"))

IdxTakeFreePad ==
    IdxStep(take_free_pad_internal(master_index),
            Called("take_free_pad", "", 0, "", <<>>,
                   IF Len(master_index.free_pads) = 0 THEN "None" ELSE "Some"))

IdxAddPendingVerificationPads(batch) ==
    IdxStep(add_pending_verification_pads_internal(master_index, batch),
            Called("add_pending_verification_pads", "", 0, "", batch, "Ok"))

IdxAddPendingPads(batch) ==
    IdxStep(add_pending_pads_internal(master_index, batch),
            Called("add_pending_pads", "", 0, "", batch, "Ok"))

IdxTakePendingPads ==
    IdxStep(take_pending_pads_internal(master_index),
            Called("take_pending_pads", "", 0, "", <<>>, "Ok"))

IdxRemoveFromPending(address) ==
    IdxStep(remove_from_pending_internal(master_index, address),
            Called("remove_from_pending", "", address, "", <<>>, "Ok"))

IdxUpdatePadStatus(key, address, status) ==
    IdxStep(update_pad_status_internal(master_index, key, address, status),
            Called("update_pad_status", key, address, status, <<>>,
                   update_pad_status_result(master_index, key, address, status)))

IdxMarkKeyComplete(key) ==
    IdxStep(mark_key_complete_internal(master_index, key),
            Called("mark_key_complete", key, 0, "", <<>>,
                   mark_key_complete_result(master_index, key)))

IdxResetIndex ==
    IdxStep(reset_index_internal(master_index),
            Called("reset_index", "", 0, "", <<>>, "Ok"))

NextIndex ==
    \/ \E key \in Keys, info \in KeyInfoInputs : IdxInsertKeyInfo(key, info)
    \/ \E key \in Keys : IdxRemoveKeyInfo(key)
    \/ \E e \in FreeEntryInputs : IdxAddFreePad(e)
    \/ \E batch \in FreeBatchInputs : IdxAddFreePads(batch)
    \/ IdxTakeFreePad
    \/ \E batch \in PendingBatchInputs : IdxAddPendingVerificationPads(batch)
    \/ \E batch \in PendingBatchInputs : IdxAddPendingPads(batch)
    \/ IdxTakePendingPads
    \/ \E address \in IdxAddrs : IdxRemoveFromPending(address)
    \/ \E key \in Keys, address \in IdxAddrs, status \in StatusSet :
            IdxUpdatePadStatus(key, address, status)
    \/ \E key \in Keys : IdxMarkKeyComplete(key)
    \/ IdxResetIndex

SpecIndex == Init /\ [][NextIndex]_vars

\* =================================================================== claims
Returned(kind) == op.kind = kind /\ op.pc = "done"

\* C1: a fetch of a key whose last operation was a successful store of
\* `bytes` (op.expect), run without a declining callback and without a
\* network failure, succeeds and returns exactly `bytes`, whatever order the
\* chunk writes and the chunk reads completed in.
RoundTrip ==
    (Returned("fetch") /\ op.expect # <<>> /\ ~op.fault)
        => (op.result = "Ok" /\ op.bytes = op.expect[1])

\* A fetch returned a payload with a short last chunk after a store of it,
\* the read of chunk 1 having completed before the read of chunk 0.
RoundTripWitness ==
    /\ Returned("fetch") /\ op.result = "Ok"
    /\ op.expect = <<op.bytes>>
    /\ Len(op.bytes) > DEFAULT_SCRATCHPAD_SIZE
    /\ Len(op.bytes) % DEFAULT_SCRATCHPAD_SIZE # 0
    /\ op.events[2] = [e |-> "ChunkFetched", arg |-> 1]

\* Where an address is held: in the pads of a key, in free_pads, in
\* pending_verification_pads.
Holders(mi, address) ==
    {<<"key", k>> : k \in {k \in Keys : address \in KeyAddrs(mi, k)}}
        \cup (IF address \in FreeAddrs(mi) THEN {<<"free_pads", "">>} ELSE {})
        \cup (IF address \in PendingAddrs(mi)
              THEN {<<"pending_verification_pads", "">>} ELSE {})

\* C2: invariant I3 - no pad address is held in more than one of: the pads
\* of a key, free_pads, pending_verification_pads; nor by two keys.
NoPadSharing ==
    \A address \in Addrs : Cardinality(Holders(master_index, address)) <= 1

\* C3: a store cancelled by its callback on a ChunkWritten event returns
\* OperationCancelled, leaves no KeyInfo for the key in the index, and leaves
\* every acquired pad in free_pads.
CancelledStoreLeavesNothing ==
    (Returned("store") /\ op.cancel_at = "ChunkWritten")
        => /\ op.result = "OperationCancelled"
           /\ master_index.index[op.key] = <<>>
           /\ SeqAddrs(op.acquired) \subseteq FreeAddrs(master_index)

\* The addresses an index keeps track of.
Tracked(mi) ==
    FreeAddrs(mi) \cup PendingAddrs(mi) \cup UNION {KeyAddrs(mi, k) : k \in Keys}

\* C4: after remove(k) of a stored key, k is absent, every pad address of k
\* is in free_pads with its pad key and a raised counter, and no address the
\* index tracked before the remove is untracked after it.
RemoveReleasesPads ==
    (Returned("remove") /\ op.result = "Ok" /\ op.pre.index[op.key] # <<>>)
        => /\ master_index.index[op.key] = <<>>
           /\ \A a \in KeyAddrs(op.pre, op.key) :
                 \E i \in 1 .. Len(master_index.free_pads) :
                     /\ master_index.free_pads[i].address = a
                     /\ master_index.free_pads[i].key_bytes = KeyOf(a)
                     /\ master_index.free_pads[i].counter >= 1
           /\ Tracked(op.pre) \subseteq Tracked(master_index)

\* The number of pads new data needs under the pad size of an index.
PadsNeeded(mi, data) == Len(chunk_data(data, mi.scratchpad_size).chunks)

\* C5: an update of a key holding n pads with data that needs n' pads,
\* 1 <= n' < n, run without a declining callback and without a network
\* failure, succeeds; the key then holds exactly its first n' pads and
\* free_pads has grown by exactly the n - n' tail pads.  (That a fetch then
\* returns the new data is RoundTrip's part, through op.expect.)
ShrinkingUpdateSucceeds ==
    (/\ Returned("update") /\ ~op.fault
     /\ op.pre.index[op.key] # <<>>
     /\ PadsNeeded(op.pre, op.data) >= 1
     /\ PadsNeeded(op.pre, op.data) < Len(op.pre.index[op.key][1].pads))
        => LET old == op.pre.index[op.key][1].pads
               new_n == PadsNeeded(op.pre, op.data)
           IN  /\ op.result = "Ok"
               /\ master_index.index[op.key] # <<>>
               /\ [i \in 1 .. Len(master_index.index[op.key][1].pads) |->
                      master_index.index[op.key][1].pads[i].address]
                    = [i \in 1 .. new_n |-> old[i].address]
               /\ FreeAddrs(master_index)
                    = FreeAddrs(op.pre)
                        \cup {old[i].address : i \in new_n + 1 .. Len(old)}
               /\ stored[op.key] = <<op.data>>

\* C6: invariant I2 - a KeyInfo with is_complete = TRUE has every pad in
\* status Confirmed and populated_pads_count equal to its number of pads.
CompleteMeansConfirmed ==
    \A k \in Keys :
        (master_index.index[k] # <<>> /\ master_index.index[k][1].is_complete)
            => /\ \A i \in 1 .. Len(master_index.index[k][1].pads) :
                     master_index.index[k][1].pads[i].status = "Confirmed"
               /\ master_index.index[k][1].populated_pads_count
                    = Len(master_index.index[k][1].pads)

\* The status a pad of a key has in an index (<<>> when the key lacks it).
StatusIn(mi, key, address) ==
    IF key \notin Keys \/ mi.index[key] = <<>> THEN <<>>
    ELSE LET pads == mi.index[key][1].pads
             at == {i \in 1 .. Len(pads) : pads[i].address = address}
         IN  IF at = {} THEN <<>>
             ELSE <<pads[CHOOSE i \in at : \A j \in at : i <= j].status>>

\* C7: an update_pad_status call that asks for an earlier status than the
\* pad's current one fails with InconsistentState and changes nothing, so a
\* pad's status never moves backward.
PadStatusOnlyForward ==
    (/\ call.name = "update_pad_status"
     /\ StatusIn(call.pre, call.key, call.address) # <<>>
     /\ StatusRank(call.status)
          < StatusRank(StatusIn(call.pre, call.key, call.address)[1]))
        => /\ call.result = "InconsistentState"
           /\ master_index = call.pre

\* C8: adding free pads, singly or in a batch, succeeds; the entries
\* free_pads held before stay where they were with their key and counter, an
\* add whose addresses are all present already changes nothing, and
\* free_pads never holds two entries with one address.
FreePadsDeduplicated ==
    /\ \A i, j \in 1 .. Len(master_index.free_pads) :
          master_index.free_pads[i].address = master_index.free_pads[j].address
              => i = j
    /\ call.name \in {"add_free_pad", "add_free_pads"}
          => /\ call.result = "Ok"
             /\ Len(master_index.free_pads) >= Len(call.pre.free_pads)
             /\ SubSeq(master_index.free_pads, 1, Len(call.pre.free_pads))
                  = call.pre.free_pads
             /\ FreeAddrs(master_index)
                  = FreeAddrs(call.pre) \cup SeqAddrs(call.pads)
             /\ SeqAddrs(call.pads) \subseteq FreeAddrs(call.pre)
                  => master_index = call.pre

\* A single add named an address free_pads already held under another key
\* and counter.
FreePadsDeduplicatedWitness ==
    /\ call.name = "add_free_pad"
    /\ \E i \in 1 .. Len(call.pre.free_pads) :
          /\ call.pre.free_pads[i].address = call.pads[1].address
          /\ call.pre.free_pads[i].key_bytes # call.pads[1].key_bytes
          /\ call.pre.free_pads[i].counter # call.pads[1].counter

\* C9: pending_verification_pads holds at most one entry per address, and
\* an add_pending_pads call naming only addresses already pending changes
\* nothing.
PendingDeduplicated ==
    /\ \A i, j \in 1 .. Len(master_index.pending_verification_pads) :
          master_index.pending_verification_pads[i].address
                = master_index.pending_verification_pads[j].address
              => i = j
    /\ (/\ call.name = "add_pending_pads"
        /\ SeqAddrs(call.pads) \subseteq PendingAddrs(call.pre))
          => master_index = call.pre

\* C10: a store on a key the index already holds fails with
\* KeyAlreadyExists and leaves the key's KeyInfo, free_pads and
\* pending_verification_pads as they were.
StoreOnExistingKeyRejected ==
    (Returned("store") /\ op.pre.index[op.key] # <<>>)
        => /\ op.result = "KeyAlreadyExists"
           /\ master_index.index[op.key] = op.pre.index[op.key]
           /\ master_index.free_pads = op.pre.free_pads
           /\ master_index.pending_verification_pads
                = op.pre.pending_verification_pads

\* C11: an update of a key the index does not hold returns KeyNotFound with
\* no event emitted, no pad acquired and no chunk written, and leaves the
\* index as it was.
UpdateOnAbsentKey ==
    (Returned("update") /\ op.pre.index[op.key] = <<>>)
        => /\ op.result = "KeyNotFound"
           /\ op.events = <<>>
           /\ op.acquired = <<>>
           /\ op.net_ops = 0
           /\ master_index = op.pre

\* An update with data and a callback returned for a key that was absent
\* while the index held another key.
UpdateOnAbsentKeyWitness ==
    /\ Returned("update") /\ op.pre.index[op.key] = <<>>
    /\ op.data # <<>> /\ op.cb
    /\ \E k \in Keys : op.pre.index[k] # <<>>

\* C12: a store one of whose chunk writes failed returns Storage, leaves no
\* KeyInfo for the key in the index, and leaves every acquired pad in
\* free_pads.
StoreWriteFailureLeavesNothing ==
    (Returned("store") /\ op.failed # {})
        => /\ op.result = "Storage"
           /\ master_index.index[op.key] = <<>>
           /\ SeqAddrs(op.acquired) \subseteq FreeAddrs(master_index)

\* What a fetch whose read failed has emitted: Starting, then ChunkFetched
\* for chunks other than the failed one, and nothing else.
OnlyFetchedBeforeFailure(o) ==
    /\ Len(o.events) = 1 + o.populated
    /\ o.events[1].e = "Starting"
    /\ \A j \in 2 .. Len(o.events) :
          o.events[j].e = "ChunkFetched" /\ o.events[j].arg \notin o.failed

\* C14: a fetch one of whose reads failed returns Storage and no data; it
\* has emitted only Starting and the ChunkFetched of the reads observed
\* before the failure, and emits nothing after it.
FetchFailureStops ==
    /\ [](Returned("fetch") /\ op.failed # {}
            => /\ op.result = "Storage"
               /\ op.bytes = <<>>
               /\ OnlyFetchedBeforeFailure(op))
    /\ [][(Returned("fetch") /\ op.failed # {}) => op'.pc = "idle"]_vars

\* The read of chunk 0 of a two-pad key failed after the read of chunk 1
\* had been observed.
FetchFailureStopsWitness ==
    /\ Returned("fetch") /\ op.failed = {0}
    /\ Len(op.pads) = 2
    /\ Len(op.events) = 2
    /\ op.events[2] = [e |-> "ChunkFetched", arg |-> 1]

\* C15: a remove returns Ok, and on a key the index does not hold it leaves
\* the index as it was; so a second remove of a key succeeds and changes
\* nothing.
RemoveIdempotent ==
    Returned("remove")
        => /\ op.result = "Ok"
           /\ master_index.index[op.key] = <<>>
           /\ op.pre.index[op.key] = <<>> => master_index = op.pre

\* A remove of an absent key returned after an earlier operation, from an
\* index that is not empty.
RemoveIdempotentWitness ==
    /\ Returned("remove") /\ op.pre.index[op.key] = <<>>
    /\ nops = MaxOps
    /\ \E k \in Keys : op.pre.index[k] # <<>>

\* C16: a store of the empty payload that no callback declines acquires no
\* pad, touches no pad on the network, emits Starting{0} then Complete, and
\* leaves the KeyInfo {pads: [], data_size: 0, is_complete, populated 0}; a
\* fetch that follows reads no pad and returns the empty byte sequence.
EmptyPayload ==
    /\ (Returned("store") /\ op.data = <<>> /\ ~op.fault)
          => /\ op.result = "Ok"
             /\ op.acquired = <<>>
             /\ op.net_ops = 0
             /\ op.events = <<[e |-> "Starting", arg |-> 0], [e |-> "Complete", arg |-> 0]>>
             /\ master_index.index[op.key] = <<NewKeyInfo(<<>>, 0, TRUE, 0)>>
             /\ master_index.free_pads = op.pre.free_pads
    /\ (Returned("fetch") /\ op.expect = << <<>> >> /\ ~op.fault)
          => /\ op.result = "Ok"
             /\ op.bytes = <<>>
             /\ op.net_ops = 0

\* A fetch with a callback returned after a store of the empty payload.
EmptyPayloadWitness ==
    /\ Returned("fetch") /\ op.expect = << <<>> >> /\ op.result = "Ok" /\ op.cb
    /\ op.events = <<[e |-> "Starting", arg |-> 0], [e |-> "Complete", arg |-> 0]>>

\* ------------------------------------------------ indices loaded at start
\* The program starts from the index it loads from the network or its
\* cache, and syncs against the index another device of the same owner has
\* pushed.  Such an index holds keys of one pad, written or confirmed, and
\* free pads; no address is held twice in it.
LoadedKeyInfos ==
    {NewKeyInfo(<<[NewPadInfo(a, 0) EXCEPT !.status = st]>>,
                DEFAULT_SCRATCHPAD_SIZE, st = "Confirmed", 1) :
        a \in Addrs, st \in {"Written", "Confirmed"}}

LoadedFreeEntries ==
    {FreeEntry(a, KeyOf(a), c) : a \in Addrs, c \in {0, 1}}

LoadedFreeLists ==
    {<<>>} \cup {<<e>> : e \in LoadedFreeEntries}
        \cup {q \in {<<e, f>> : e \in LoadedFreeEntries, f \in LoadedFreeEntries} :
                q[1].address # q[2].address}

WellFormedIndex(mi) ==
    /\ \A k1, k2 \in Keys : k1 # k2 => KeyAddrs(mi, k1) \cap KeyAddrs(mi, k2) = {}
    /\ \A k \in Keys : KeyAddrs(mi, k) \cap FreeAddrs(mi) = {}

LoadedIndices ==
    {mi \in {[index |-> ix, free_pads |-> f, pending_verification_pads |-> <<>>,
              scratchpad_size |-> DEFAULT_SCRATCHPAD_SIZE] :
                ix \in [Keys -> {<<>>} \cup {<<ki>> : ki \in LoadedKeyInfos}],
                f \in LoadedFreeLists} :
        WellFormedIndex(mi)}

\* ------------------------------------------------------- the sync spec
\* handle_sync run on a loaded in-memory index against any remote index, or
\* none.
InitSync ==
    /\ master_index \in LoadedIndices
    /\ remote \in {<<>>} \cup {<<r>> : r \in LoadedIndices}
    /\ net = [a \in Addrs |-> <<>>]
    /\ minted = 0
    /\ op = IdleOp
    /\ call = NoCall
    /\ stored = [k \in Keys |-> <<>>]
    /\ nops = 0

NextSync ==
    \/ \E confirmation \in BOOLEAN : HandleSync(confirmation)
    \/ PushForce
    \/ Return

SpecSync == InitSync /\ [][NextSync]_vars

\* ------------------------------------------------------ the fetch spec
\* fetch_op run on a loaded index, whose keys other clients or earlier runs
\* have written, completely or not, against a network on which each pad
\* either holds one full chunk or cannot be read.
LoadedChunk == [i \in 1 .. DEFAULT_SCRATCHPAD_SIZE |-> i]

InitFetch ==
    /\ master_index \in LoadedIndices
    /\ remote = <<>>
    /\ net \in [Addrs -> {<<>>, <<LoadedChunk>>}]
    /\ minted = 0
    /\ op = IdleOp
    /\ call = NoCall
    /\ stored = [k \in Keys |-> <<>>]
    /\ nops = 0

NextFetch ==
    \/ /\ op.pc = "idle" /\ nops < MaxOps
       /\ \E key \in Keys, cb \in Callbacks :
            \E r1, r2 \in invoke_callback(cb) : FetchStart(key, cb, r1, r2)
    \/ /\ op.pc = "reading"
       /\ \/ \E i \in op.todo, read_ok \in BOOLEAN, r \in invoke_callback(op.cb) :
                FetchChunk(i, read_ok, r)
          \/ \E r1, r2 \in invoke_callback(op.cb) : FetchFinish(r1, r2)
    \/ Return

SpecFetch == InitFetch /\ [][NextFetch]_vars

\* C13: a fetch of an absent key returns KeyNotFound and a fetch of a key
\* whose KeyInfo has is_complete = false returns UploadIncomplete; in both
\* cases no pad is read and no GetEvent is emitted.
FetchRejectsEarly ==
    (Returned("fetch")
        /\ (op.pre.index[op.key] = <<>> \/ ~op.pre.index[op.key][1].is_complete))
        => /\ op.result = (IF op.pre.index[op.key] = <<>>
                           THEN "KeyNotFound" ELSE "UploadIncomplete")
           /\ op.events = <<>>
           /\ op.net_ops = 0

\* ------------------------------------------------------ claims on sync
\* The local index L and the remote index R a returned sync has merged; a
\* sync that bootstrapped the remote index merged L with itself.
SyncLocal == op.pre
SyncRemote == IF op.pre_remote = <<>> THEN op.pre ELSE op.pre_remote[1]
Synced == Returned("sync") /\ op.result = "Ok"

CounterOf(mi, address) == LastEntry(mi.free_pads, address).counter

\* C17: the counter tracked for a pad address never decreases: no step
\* (acquire rollback, duplicate add, sync merge of the local and the remote
\* free lists) leaves an address that stays in free_pads with a lower counter
\* than it had.
FreeCountersNeverLowered ==
    [][\A a \in FreeAddrs(master_index) \cap FreeAddrs(master_index') :
            CounterOf(master_index', a) >= CounterOf(master_index, a)]_vars

\* C18: after a sync of L with R the merged index has the keys of L and of
\* R; a key of R has R's KeyInfo, pad statuses included, whatever L held for
\* it, and a key only L has keeps L's KeyInfo.
SyncMergesKeys ==
    Synced =>
        \A k \in Keys :
            master_index.index[k] =
                (IF SyncRemote.index[k] # <<>> THEN SyncRemote.index[k]
                 ELSE SyncLocal.index[k])

SyncMergesKeysWitness ==
    /\ Synced
    /\ op.pre_remote # <<>>
    /\ \E k1, k2 \in Keys :
        /\ SyncLocal.index[k1] # <<>> /\ SyncRemote.index[k1] # <<>>
        /\ SyncLocal.index[k1] # SyncRemote.index[k1]
        /\ SyncLocal.index[k2] # <<>> /\ SyncRemote.index[k2] = <<>>
        /\ master_index.index[k2] = SyncLocal.index[k2]

\* C19: after a sync the merged free_pads hold the addresses free in L or
\* in R, minus every address in the pads of a KeyInfo of the merged index
\* (those of remote-only keys included), so no address is both free and
\* occupied.
SyncFreePadsExcludeOccupied ==
    Synced =>
        LET occupied == UNION {KeyAddrs(master_index, k) : k \in Keys}
        IN  /\ FreeAddrs(master_index)
                = (FreeAddrs(SyncLocal) \cup FreeAddrs(SyncRemote)) \ occupied
            /\ FreeAddrs(master_index) \cap occupied = {}

\* L as a sync that creates the remote index leaves it: the free entries
\* no key of L occupies, one per address, in any order.
SameUpToFreeOrder(mi, l) ==
    LET kept == FreeAddrs(l) \ get_occupied_private_pad_addresses(l)
    IN  /\ mi.index = l.index
        /\ mi.pending_verification_pads = l.pending_verification_pads
        /\ mi.scratchpad_size = l.scratchpad_size
        /\ Range(mi.free_pads) = {LastEntry(l.free_pads, a) : a \in kept}
        /\ Len(mi.free_pads) = Cardinality(kept)

ScratchpadSizes == 1 .. DEFAULT_SCRATCHPAD_SIZE + 1

\* A loaded index of scratchpad size s: each of its keys fills its one pad.
SizedIndex(mi, s) ==
    [mi EXCEPT !.scratchpad_size = s,
               !.index = [k \in Keys |->
                            IF mi.index[k] = <<>> THEN <<>>
                            ELSE <<[mi.index[k][1] EXCEPT !.data_size = s]>>]]

SizedIndices ==
    {SizedIndex(mi, s) :
        mi \in {l \in LoadedIndices : Len(l.free_pads) <= 1}, s \in ScratchpadSizes}

\* reset and sync run on such an index, against any remote index or none.
InitSized ==
    /\ master_index \in SizedIndices
    /\ remote \in {<<>>} \cup {<<r>> : r \in SizedIndices}
    /\ net = [a \in Addrs |-> <<>>]
    /\ minted = 0
    /\ op = IdleOp
    /\ call = NoCall
    /\ stored = [k \in Keys |-> <<>>]
    /\ nops = 0

NextSized ==
    \/ \E confirmation \in BOOLEAN : HandleSync(confirmation)
    \/ PushForce
    \/ Reset
    \/ Return

SpecSized == InitSized /\ [][NextSized]_vars

\* ------------------------------------------------- claims on invariants
CeilDiv(n, d) == (n + d - 1) \div d

\* C22: invariant I1: every KeyInfo of the index has no pad exactly when its
\* data_size is 0, and otherwise ceil(data_size / scratchpad_size) pads.
PadCountMatchesSize ==
    \A k \in Keys :
        master_index.index[k] # <<>> =>
            LET info == master_index.index[k][1]
            IN  /\ (Len(info.pads) = 0 <=> info.data_size = 0)
                /\ Len(info.pads) = CeilDiv(info.data_size, master_index.scratchpad_size)

\* C24: invariant I5: scratchpad_size is positive and no step (reset_index
\* and sync with a remote index included) changes the value the index was
\* created with.
ScratchpadSizeFixed ==
    /\ [](master_index.scratchpad_size > 0)
    /\ [][master_index'.scratchpad_size = master_index.scratchpad_size]_vars

put_raw(network, address, data, net_ok) ==
    IF network[address] = <<>>
    THEN IF net_ok THEN [net |-> write_pad_data(network, address, data), result |-> "Ok"]
         ELSE [net |-> network, result |-> "InternalError"]
    ELSE IF net_ok THEN [net |-> write_pad_data(network, address, data), result |-> "Ok"]
         ELSE [net |-> network, result |-> "InternalError"]

PadContents == {<<1>>, <<2>>}

\* A caller holding the pad in `status` writes data to it.
PutRaw(address, data, status, net_ok) ==
    /\ nops < MaxCalls
    /\ nops' = nops + 1
    /\ \E nx \in {put_raw(net, address, data, net_ok)} :
          /\ net' = nx.net
          /\ call' = [name |-> "put_raw", key |-> "", address |-> address,
                      status |-> status, pads |-> data, result |-> nx.result,
                      pre |-> master_index, pre_net |-> net, net_ok |-> net_ok]
    /\ UNCHANGED <<master_index, remote, minted, op, stored>>

NextNetwork ==
    \E address \in Addrs, data \in PadContents, status \in StatusSet, net_ok \in BOOLEAN :
        PutRaw(address, data, status, net_ok)

SpecNetwork == Init /\ [][NextNetwork]_vars

\* C25: put_raw fails with InconsistentState, and leaves the pad as it
\* was, when the caller's status hint contradicts the network: a create
\* (Generated) of a pad that exists, an update (Written or later) of a pad
\* that does not.  Stated for the calls the network itself does not fail.
PutRawChecksHint ==
    (call.name = "put_raw" /\ call.net_ok) =>
        LET existed == read_pad_data(call.pre_net, call.address) # <<>>
            create == call.status = "Generated"
            update == call.status \in {"Written", "Confirmed"}
        IN  ((create /\ existed) \/ (update /\ ~existed))
                => /\ call.result = "InconsistentState"
                   /\ net = call.pre_net

\* ------------------------------------------------------------ the chunker
\* chunk_data and reassemble_data applied to every small input.
ChunkSizes == 0 .. DEFAULT_SCRATCHPAD_SIZE + 1

\* The slots fetch_op fills from a chunking: Some(chunk) at every position.
Wrap(chunks) == [i \in 1 .. Len(chunks) |-> <<chunks[i]>>]

\* Slots of a chunking with the positions of `missing` left at None.
SlotInputs ==
    {[i \in 1 .. Len(w) |-> IF i \in missing THEN <<>> ELSE w[i]] :
        w \in {Wrap(Pieces(d, cs)) : d \in Payloads, cs \in ChunkSizes \ {0}},
        missing \in SUBSET (1 .. MaxLen)}

ChunkData(data, chunk_size) ==
    /\ nops < MaxCalls
    /\ nops' = nops + 1
    /\ call' = [name |-> "chunk_data", data |-> data, chunk_size |-> chunk_size,
                out |-> chunk_data(data, chunk_size)]
    /\ UNCHANGED <<master_index, remote, net, minted, op, stored>>

ReassembleData(slots, expected_size) ==
    /\ nops < MaxCalls
    /\ nops' = nops + 1
    /\ call' = [name |-> "reassemble_data", slots |-> slots,
                expected_size |-> expected_size,
                out |-> reassemble_data(slots, expected_size)]
    /\ UNCHANGED <<master_index, remote, net, minted, op, stored>>

NextChunking ==
    \/ \E data \in Payloads, chunk_size \in ChunkSizes : ChunkData(data, chunk_size)
    \/ \E slots \in SlotInputs, expected_size \in 0 .. MaxLen + 1 :
            ReassembleData(slots, expected_size)

SpecChunking == Init /\ [][NextChunking]_vars

\* C26: chunk_data with chunk size 0 fails with ChunkingError("Chunk size
\* cannot be zero"); otherwise it returns ceil(|data| / size) chunks, all but
\* the last of exactly size bytes, the last of 1..size bytes, which
\* concatenate in order to data.
ChunkingContract ==
    call.name = "chunk_data" =>
        LET size == call.chunk_size
            chunks == call.out.chunks
            n == Len(chunks)
        IN  IF size = 0
            THEN /\ ~call.out.ok
                 /\ call.out.err = "ChunkingError"
                 /\ call.out.msg = "Chunk size cannot be zero"
            ELSE /\ call.out.ok
                 /\ n = CeilDiv(Len(call.data), size)
                 /\ \A i \in 1 .. n - 1 : Len(chunks[i]) = size
                 /\ n > 0 => Len(chunks[n]) \in 1 .. size
                 /\ Concat(Wrap(chunks)) = call.data

ChunkingContractWitness ==
    /\ call.name = "chunk_data"
    /\ call.chunk_size = 2
    /\ Len(call.data) = 3
    /\ Len(call.out.chunks) = 2
    /\ Len(call.out.chunks[2]) = 1

\* C27: reassemble_data succeeds exactly when no slot is missing and the
\* slots' total length is expected_size, and then returns them concatenated
\* in order, so the chunks of any data reassemble to it; a missing slot
\* gives ReassemblyError naming the lowest missing index, a wrong total
\* length gives ReassemblyError "does not match expected size".
ReassemblyContract ==
    call.name = "reassemble_data" =>
        LET slots == call.slots
            missing == {i \in 1 .. Len(slots) : slots[i] = <<>>}
        IN  /\ call.out.ok <=> (missing = {} /\ Len(Concat(slots)) = call.expected_size)
            /\ call.out.ok => call.out.bytes = Concat(slots)
            /\ \A d \in Payloads, cs \in ChunkSizes \ {0} :
                    (slots = Wrap(chunk_data(d, cs).chunks) /\ call.expected_size = Len(d))
                        => call.out.ok /\ call.out.bytes = d
            /\ missing # {} =>
                    /\ call.out.err = "ReassemblyError"
                    /\ call.out.msg = "Missing chunk at index"
                    /\ call.out.index + 1 \in missing
                    /\ \A i \in missing : call.out.index + 1 <= i
            /\ (missing = {} /\ Len(Concat(slots)) # call.expected_size) =>
                    /\ call.out.err = "ReassemblyError"
                    /\ call.out.msg = "does not match expected size"

ReassemblyContractWitness ==
    /\ call.name = "reassemble_data"
    /\ Len(call.slots) = 2
    /\ call.slots = Wrap(chunk_data(<<1, 2, 3>>, 2).chunks)
    /\ call.expected_size = 3
    /\ call.out.bytes = <<1, 2, 3>>

\* C28: a store that fails because the callback declined an event
\* (Starting, a ChunkWritten, Complete) or failed itself leaves no KeyInfo
\* for the key and every pad it acquired in free_pads.  Stated for a key
\* that was absent before the store.
FailedStoreCompensated ==
    (Returned("store") /\ op.result \in {"OperationCancelled", "InternalError"}
        /\ op.pre.index[op.key] = <<>>)
        => /\ master_index.index[op.key] = <<>>
           /\ SeqAddrs(op.acquired) \subseteq FreeAddrs(master_index)

\* C29: an update that acquired additional pads and is cancelled on a
\* ChunkWritten or hits a write failure releases them: afterwards every
\* acquired pad is in free_pads or in the key's KeyInfo, and the key is
\* unchanged or left with is_complete = false.
FailedUpdateCompensated ==
    (Returned("update") /\ op.acquired # <<>>
        /\ (op.result = "Storage" \/ op.cancel_at = "ChunkWritten"))
        => /\ SeqAddrs(op.acquired)
                \subseteq (FreeAddrs(master_index) \cup KeyAddrs(master_index, op.key))
           /\ \/ master_index.index[op.key] = op.pre.index[op.key]
              \/ /\ master_index.index[op.key] # <<>>
                 /\ ~master_index.index[op.key][1].is_complete

\* C30: a store of non-empty data has inserted the KeyInfo, with
\* is_complete = false and all pads Generated, by the time its chunk writes
\* are scheduled, and when it returns success the KeyInfo still has
\* is_complete = false.
StoreCommitsIncomplete ==
    /\ (op.kind = "store" /\ op.pc = "writing" /\ op.net_ops = 0)
            => /\ master_index.index[op.key] # <<>>
               /\ ~master_index.index[op.key][1].is_complete
               /\ \A i \in 1 .. Len(master_index.index[op.key][1].pads) :
                        master_index.index[op.key][1].pads[i].status = "Generated"
    /\ (Returned("store") /\ op.result = "Ok" /\ op.data # <<>>)
            => /\ master_index.index[op.key] # <<>>
               /\ ~master_index.index[op.key][1].is_complete

\* ----------------------------------------------------- claims on acquire
Distinct(seq) == \A i, j \in 1 .. Len(seq) : seq[i].address = seq[j].address => i = j

StoreEventOrder ==
    op.kind = "store" =>
        LET ev == op.events
            n == Len(chunk_data(op.data, op.pre.scratchpad_size).chunks)
        IN  /\ \A j \in 1 .. Len(ev) :
                /\ ev[j].e = "Starting" <=> j = 1
                /\ ev[j].e = "Starting" => ev[j].arg = n
                /\ ev[j].e \in {"Starting", "ChunkWritten", "Complete"}
                /\ ev[j].e = "Complete" =>
                        /\ j = Len(ev)
                        /\ master_index.index[op.key] # <<>>
                        /\ master_index.index[op.key][1].pads = op.pads
                /\ ev[j].e = "ChunkWritten" =>
                        /\ ev[j].arg \in 0 .. n - 1
                        /\ ev[j].arg + 1 \notin op.todo
                        /\ ev[j].arg \notin op.failed
                        /\ read_pad_data(net, op.pads[ev[j].arg + 1].address)
                                = <<op.chunks[ev[j].arg + 1]>>
                        /\ \A m \in 1 .. Len(ev) : ev[m] = ev[j] => m = j
            /\ (op.acquired # <<>> \/ op.net_ops > 0) => Len(ev) >= 1
            /\ (op.pc = "done" /\ op.result = "Ok") =>
                    /\ Len(ev) = n + 2
                    /\ ev[Len(ev)].e = "Complete"

StoreEventOrderWitness ==
    /\ Returned("store") /\ op.result = "Ok" /\ op.cb
    /\ Len(op.events) = 4
    /\ op.events[2] = [e |-> "ChunkWritten", arg |-> 1]
    /\ op.events[3] = [e |-> "ChunkWritten", arg |-> 0]

\* C40: an operation run without a callback is never cancelled: store,
\* update and fetch without a callback never return OperationCancelled and
\* no emission point declines; a callback that returns an error makes the
\* operation fail with an error that is not OperationCancelled.
NoCallbackNoCancel ==
    (op.pc = "done" /\ op.kind \in {"store", "update", "fetch"})
        => /\ ~op.cb => /\ op.result # "OperationCancelled"
                        /\ op.cancel_at = ""
                        /\ ~op.cb_failed
           /\ op.cb_failed => op.result = "InternalError"
           /\ op.result = "OperationCancelled" => op.cancel_at # ""

NoCallbackNoCancelWitness ==
    /\ Returned("store") /\ ~op.cb /\ op.result = "Ok"
    /\ Len(op.events) = 4
    /\ \E k \in Keys : k # op.key /\ op.pre.index[k] # <<>>

UpdatesReusedPads ==
    /\ Returned("update")
    /\ op.pre.index[op.key] # <<>>
    /\ op.pre.index[op.key][1].pads # <<>>
    /\ op.data # <<>>

\* C37 as stated: every update of a key that holds a pad, with non-empty data,
\* returns InternalError for the missing keys.
UpdateFailsMissingKeysAlways ==
    UpdatesReusedPads => op.result = "InternalError" /\ ~op.cb_failed

\* C37: an update of a key that holds at least one pad, with non-empty data,
\* never succeeds and never issues a chunk write, and leaves the KeyInfo of
\* the key as it was; it fails earlier when the Starting callback declines or
\* fails or when acquiring the additional pads fails, and otherwise fails
\* with InternalError for the missing keys, with every pad it acquired back
\* in free_pads.
UpdateFailsBeforeWrites ==
    UpdatesReusedPads
        => /\ op.result # "Ok"
           /\ op.net_ops = 0
           /\ master_index.index[op.key] = op.pre.index[op.key]
           /\ \/ op.cancel_at = "Starting" /\ op.result = "OperationCancelled"
              \/ op.cb_failed /\ op.result = "InternalError"
              \/ op.result = "PadLifecycleError" /\ op.acquired = <<>>
              \/ /\ op.result = "InternalError"
                 /\ ~op.cb_failed
                 /\ Len(op.acquired) + Len(op.pre.index[op.key][1].pads)
                        >= Len(chunk_data(op.data, op.pre.scratchpad_size).chunks)
                 /\ SeqAddrs(op.acquired) \subseteq FreeAddrs(master_index)

UpdateFailsBeforeWritesWitness ==
    /\ UpdatesReusedPads
    /\ Len(op.pre.index[op.key][1].pads) = 1
    /\ Len(op.acquired) = 1
    /\ op.result = "InternalError"
    /\ op.acquired[1].address \in FreeAddrs(master_index)
    /\ op.acquired[1].address \notin Tracked(op.pre)

\* C38: sync loses no pad - after a regular sync every pad address the local
\* index tracked before it and every pad address the remote index tracked is
\* held by the merged index, in exactly one of a key's pads, free_pads or
\* pending_verification_pads.
SyncLosesNoPad ==
    (Synced /\ op.pre_remote # <<>>)
        => \A a \in Tracked(SyncLocal) \cup Tracked(SyncRemote) :
              Cardinality(Holders(master_index, a)) = 1

\* The fan-out bound of the specification (16 pad operations per call),
\* scaled to the payloads of the model: one more chunk than the bound fits
\* into MaxPads.
FanOutBound == 1

\* Pad operations of the running call that were issued and have not
\* completed.
InFlight == Cardinality(op.todo)

\* C34: bounded fan-out - while a store or a fetch runs, the number of its
\* pad operations in flight never exceeds the fixed bound, however many
\* chunks the payload has.
BoundedFanOut ==
    (op.kind \in {"store", "fetch"} /\ op.pc \in {"writing", "reading"})
        => InFlight <= FanOutBound

\* ---------------------------------------------- client request table
\* direct_request! and long_request! of the client.  In this specification
\* `call` holds the client: pending_requests maps a PendingRequestKey to <<>>
\* or to <<t>>, the response sender of task t's request; task[t] is the
\* position of task t in the macro body and the state of its response
\* channel.  Every pending_requests.lock() section is one step.
RequestKinds == {"ListKeys", "TaskCreation"}
Tasks == 1 .. 2

NoClient ==
    [pending_requests |-> [k \in RequestKinds |-> <<>>],
     task |-> [t \in Tasks |->
                [pc |-> "idle", key |-> "", result |-> "", why |-> "", chan |-> "none"]],
     replaced |-> FALSE]

\* A response sender that leaves the table without a response having been
\* sent on it is dropped: the receiver sees the channel cancelled.
DropSender(c, k) ==
    IF c.pending_requests[k] = <<>> THEN c
    ELSE [c EXCEPT !.task[c.pending_requests[k][1]].chan = "canceled"]

\* pending_requests.remove(&key)
RemovePending(c, k) == [DropSender(c, k) EXCEPT !.pending_requests[k] = <<>>]

\* pending_requests.insert(key, sender): a sender already stored under the
\* key is replaced and dropped.
InsertPending(c, k, t) ==
    [DropSender(c, k) EXCEPT !.pending_requests[k] = <<t>>,
                             !.replaced = @ \/ c.pending_requests[k] # <<>>]

InitClient ==
    /\ master_index = EmptyIndex(DEFAULT_SCRATCHPAD_SIZE)
    /\ remote = <<>>
    /\ net = [a \in Addrs |-> <<>>]
    /\ minted = 0
    /\ op = IdleOp
    /\ call = NoClient
    /\ stored = [k \in Keys |-> <<>>]
    /\ nops = 0

\* if pending_requests.lock().unwrap().contains_key(&key) { return Err(..) }
ClientCheck(t, k) ==
    /\ call.task[t].pc = "idle"
    /\ nops < 2 * MaxCalls
    /\ nops' = nops + 1
    /\ call' = IF call.pending_requests[k] # <<>>
               THEN [call EXCEPT !.task[t] =
                        [Finish(@, "InternalError") EXCEPT !.key = k, !.why = "pending"]]
               ELSE [call EXCEPT !.task[t].key = k, !.task[t].pc = "insert"]
    /\ UNCHANGED <<master_index, remote, net, minted, op, stored>>

\* let (sender, receiver) = oneshot::channel(); pending_requests.insert(..)
ClientInsert(t) ==
    /\ call.task[t].pc = "insert"
    /\ call' = [InsertPending(call, call.task[t].key, t)
                    EXCEPT !.task[t].pc = "send", !.task[t].chan = "open"]
    /\ UNCHANGED <<master_index, remote, net, minted, op, stored, nops>>

\* send_request(req).await: on Err the entry under the key is removed.
ClientSend(t, sent) ==
    /\ call.task[t].pc = "send"
    /\ call' = IF sent THEN [call EXCEPT !.task[t].pc = "wait"]
               ELSE [RemovePending(call, call.task[t].key) EXCEPT !.task[t] =
                        [Finish(@, "SendError") EXCEPT !.why = "send"]]
    /\ UNCHANGED <<master_index, remote, net, minted, op, stored, nops>>

\* The response handler: it takes the sender stored under the key out of
\* the table and sends the response on it, or drops it.
ClientRespond(k, deliver) ==
    /\ call.pending_requests[k] # <<>>
    /\ \E t \in Tasks : call.task[t].key = k /\ call.task[t].pc = "wait"
    /\ call' = IF deliver
               THEN [call EXCEPT !.pending_requests[k] = <<>>,
                                 !.task[call.pending_requests[k][1]].chan = "sent"]
               ELSE RemovePending(call, k)
    /\ UNCHANGED <<master_index, remote, net, minted, op, stored, nops>>

\* receiver.await: direct_request! removes the entry under the key when the
\* channel was cancelled, long_request! does not.
ClientReceive(t) ==
    /\ call.task[t].pc = "wait"
    /\ call.task[t].chan \in {"sent", "canceled"}
    /\ call' = IF call.task[t].chan = "sent"
               THEN [call EXCEPT !.task[t] = Finish(@, "Ok")]
               ELSE IF call.task[t].key = "TaskCreation"
               THEN [call EXCEPT !.task[t] =
                        [Finish(@, "InternalError") EXCEPT !.why = "canceled"]]
               ELSE [RemovePending(call, call.task[t].key) EXCEPT !.task[t] =
                        [Finish(@, "InternalError") EXCEPT !.why = "canceled"]]
    /\ UNCHANGED <<master_index, remote, net, minted, op, stored, nops>>

ClientReturn(t) ==
    /\ call.task[t].pc = "done"
    /\ call' = [call EXCEPT !.task[t] = NoClient.task[t]]
    /\ UNCHANGED <<master_index, remote, net, minted, op, stored, nops>>

NextClient ==
    \/ \E t \in Tasks, k \in RequestKinds : ClientCheck(t, k)
    \/ \E t \in Tasks : ClientInsert(t)
    \/ \E t \in Tasks, sent \in BOOLEAN : ClientSend(t, sent)
    \/ \E k \in RequestKinds, deliver \in BOOLEAN : ClientRespond(k, deliver)
    \/ \E t \in Tasks : ClientReceive(t)
    \/ \E t \in Tasks : ClientReturn(t)

SpecClient == InitClient /\ [][NextClient]_vars

\* Tasks whose request of kind k is in the table or being sent.
PendingOf(k) ==
    {t \in Tasks : call.task[t].key = k /\ call.task[t].pc \in {"send", "wait"}
                   /\ call.task[t].chan = "open"}

\* C39: for each request kind at most one request is pending, also when two
\* tasks issue the same kind concurrently: no insert replaces a stored
\* response sender, the sender in the table belongs to the pending request,
\* and after a failed send or a cancelled response channel the request's
\* entry is no longer in the table.
ClientOnePending ==
    /\ ~call.replaced
    /\ \A k \in RequestKinds :
          /\ Cardinality(PendingOf(k)) <= 1
          /\ \A t \in PendingOf(k) : call.pending_requests[k] = <<t>>
    /\ \A t \in Tasks :
          (call.task[t].pc = "done" /\ call.task[t].why \in {"send", "canceled"})
              => call.pending_requests[call.task[t].key] # <<t>>

\* ------------------------------------------------------- the master lock
\* update_item run by two tasks.  In this specification `call` holds the
\* master lock (0: free, t: the guard is held by task t) and the position of
\* each task in update_item.  A task in Suspended is awaiting a network call
\* or a callback.
NoLock ==
    [lock |-> 0,
     task |-> [t \in Tasks |->
                [pc |-> "idle", key |-> "", needs_confirmation |-> FALSE,
                 total_space |-> 0, free_space |-> 0, result |-> ""]]]

Suspended == {"estimate", "cb_reserving", "cb_confirm", "allocate"}

ReleaseGuardKept(c, t) == c

\* The MutexGuard goes out of scope at the end of its block.
ReleaseGuard(c, t) == [c EXCEPT !.lock = 0]

InitLock ==
    /\ master_index \in LoadedIndices
    /\ remote = <<>>
    /\ net = [a \in Addrs |-> <<>>]
    /\ minted = 0
    /\ op = IdleOp
    /\ call = NoLock
    /\ stored = [k \in Keys |-> <<>>]
    /\ nops = 0

UpdateItemBegin(t, key) ==
    /\ call.task[t].pc = "idle"
    /\ nops < 2 * MaxCalls
    /\ nops' = nops + 1
    /\ call' = [call EXCEPT !.task[t].pc = "lock1", !.task[t].key = key]
    /\ UNCHANGED <<master_index, remote, net, minted, op, stored>>

\* master_index_storage.lock().await: the task waits until the lock is free.
UpdateItemLock(t) ==
    /\ call.task[t].pc \in {"lock1", "lock2", "lock3"}
    /\ call.lock = 0
    /\ call' = [call EXCEPT !.lock = t,
                            !.task[t].pc = CASE call.task[t].pc = "lock1" -> "check"
                                             [] call.task[t].pc = "lock2" -> "stats"
                                             [] OTHER -> "commit"]
    /\ UNCHANGED <<master_index, remote, net, minted, op, stored, nops>>

\* The first guarded block: the key must exist.
UpdateItemCheck(t) ==
    /\ call.task[t].pc = "check"
    /\ call' = IF ~contains_key(master_index, call.task[t].key)
               THEN [ReleaseGuard(call, t) EXCEPT !.task[t] = Finish(@, "KeyNotFound")]
               ELSE [ReleaseGuard(call, t) EXCEPT !.task[t].pc = "estimate"]
    /\ UNCHANGED <<master_index, remote, net, minted, op, stored, nops>>

\* pad_manager.estimate_reservation(data_size).await
UpdateItemEstimate(t, estimate) ==
    /\ call.task[t].pc = "estimate"
    /\ call' = CASE estimate = "pads" ->
                        [call EXCEPT !.task[t].pc = "cb_reserving",
                                     !.task[t].needs_confirmation = TRUE]
                 [] estimate = "none" -> [call EXCEPT !.task[t].pc = "allocate"]
                 [] OTHER -> [call EXCEPT !.task[t] = Finish(@, "Error")]
    /\ UNCHANGED <<master_index, remote, net, minted, op, stored, nops>>

\* invoke_callback(ReservingScratchpads).await?
UpdateItemReserving(t, cb_ok) ==
    /\ call.task[t].pc = "cb_reserving"
    /\ call' = IF cb_ok THEN [call EXCEPT !.task[t].pc = "lock2"]
               ELSE [call EXCEPT !.task[t] = Finish(@, "CallbackError")]
    /\ UNCHANGED <<master_index, remote, net, minted, op, stored, nops>>

\* The second guarded block: the space statistics for the confirmation.
UpdateItemStats(t) ==
    /\ call.task[t].pc = "stats"
    /\ LET mi == master_index
           total_pads == Len(mi.free_pads)
                + Cardinality({<<k, i>> \in Keys \X (1 .. MaxPads + MaxIdxAddr) :
                                  mi.index[k] # <<>> /\ i <= Len(mi.index[k][1].pads)})
       IN call' = [ReleaseGuard(call, t)
                      EXCEPT !.task[t].pc = "cb_confirm",
                             !.task[t].total_space = total_pads * mi.scratchpad_size,
                             !.task[t].free_space = Len(mi.free_pads) * mi.scratchpad_size]
    /\ UNCHANGED <<master_index, remote, net, minted, op, stored, nops>>

\* invoke_callback(ConfirmReservation).await?
UpdateItemConfirm(t, cb_ok) ==
    /\ call.task[t].pc = "cb_confirm"
    /\ call' = IF cb_ok THEN [call EXCEPT !.task[t].pc = "allocate"]
               ELSE [call EXCEPT !.task[t] = Finish(@, "CallbackError")]
    /\ UNCHANGED <<master_index, remote, net, minted, op, stored, nops>>

\* pad_manager.allocate_and_write(key, data, callback).await: the network
\* part; on success the KeyInfo is written under the lock.
UpdateItemAllocate(t, ok) ==
    /\ call.task[t].pc = "allocate"
    /\ call' = IF ok THEN [call EXCEPT !.task[t].pc = "lock3"]
               ELSE [call EXCEPT !.task[t] = Finish(@, "Error")]
    /\ UNCHANGED <<master_index, remote, net, minted, op, stored, nops>>

\* The post-write critical section: the KeyInfo of the key is marked
\* complete, if the key is still there.
UpdateItemCommit(t) ==
    /\ call.task[t].pc = "commit"
    /\ LET key == call.task[t].key
           info == get_key_info_internal(master_index, key)
       IN master_index' =
             IF info = <<>> THEN master_index
             ELSE insert_key_info_internal(master_index, key,
                      [info[1] EXCEPT !.is_complete = TRUE,
                                      !.populated_pads_count = Len(info[1].pads)])
    /\ call' = [ReleaseGuard(call, t) EXCEPT !.task[t] = Finish(@, "Ok")]
    /\ UNCHANGED <<remote, net, minted, op, stored, nops>>

UpdateItemReturn(t) ==
    /\ call.task[t].pc = "done"
    /\ call' = [call EXCEPT !.task[t] = NoLock.task[t]]
    /\ UNCHANGED <<master_index, remote, net, minted, op, stored, nops>>

NextLock ==
    \/ \E t \in Tasks, key \in Keys : UpdateItemBegin(t, key)
    \/ \E t \in Tasks : UpdateItemLock(t)
    \/ \E t \in Tasks : UpdateItemCheck(t)
    \/ \E t \in Tasks, estimate \in {"pads", "none", "error"} : UpdateItemEstimate(t, estimate)
    \/ \E t \in Tasks, cb_ok \in BOOLEAN : UpdateItemReserving(t, cb_ok)
    \/ \E t \in Tasks : UpdateItemStats(t)
    \/ \E t \in Tasks, cb_ok \in BOOLEAN : UpdateItemConfirm(t, cb_ok)
    \/ \E t \in Tasks, ok \in BOOLEAN : UpdateItemAllocate(t, ok)
    \/ \E t \in Tasks : UpdateItemCommit(t)
    \/ \E t \in Tasks : UpdateItemReturn(t)

SpecLock == InitLock /\ [][NextLock]_vars

\* C33: the master lock is never held while a network call or a callback is
\* pending - a task holds the guard exactly while it is inside one of its
\* guarded blocks, so a suspended task never holds it, and whenever a task
\* waits for the lock its holder is inside a critical section and not
\* suspended.
MasterLockShort ==
    /\ \A t \in Tasks :
          /\ call.lock = t <=> call.task[t].pc \in {"check", "stats", "commit"}
          /\ call.task[t].pc \in Suspended => call.lock # t
    /\ \A u \in Tasks :
          (call.task[u].pc \in {"lock1", "lock2", "lock3"} /\ call.lock # 0)
              => call.task[call.lock].pc \notin Suspended

MasterLockShortWitness ==
    /\ call.task[1].pc = "allocate"
    /\ call.task[1].needs_confirmation
    /\ call.lock = 2
    /\ call.task[2].pc = "stats"

\* ------------------------------------------------------ concurrent tasks
\* Two tasks of one process run store_op, update_op and remove_op
\* concurrently.  In this specification `op` is the operation of task 1 and
\* `call` the operation of task 2; each step of an operation is the step of
\* the single-task specification, applied to the task's own record and to the
\* shared index and network.  The operations run without a callback, on
\* payloads of no chunk, one chunk and two chunks.
TaskOp(t) == IF t = 1 THEN op ELSE call

SetTask(t, o) == IF t = 1 THEN op' = o /\ call' = call ELSE call' = o /\ op' = op

\* The indices the tasks start from: pad 1 was minted earlier and is free,
\* or holds the one chunk of a key, or was never minted; a key is absent,
\* holds empty data, or holds pad 1.
TaskIndices ==
    {mi \in {[index |-> ix, free_pads |-> f, pending_verification_pads |-> <<>>,
              scratchpad_size |-> DEFAULT_SCRATCHPAD_SIZE] :
                ix \in [Keys ->
                    {<<>>, <<NewKeyInfo(<<>>, 0, TRUE, 0)>>,
                     <<NewKeyInfo(StorePadInfoList(<<FreeEntry(1, KeyOf(1), 0)>>),
                                  1, TRUE, 1)>>}],
                f \in {<<>>, <<FreeEntry(1, KeyOf(1), 0)>>}} :
        Cardinality(Holders(mi, 1)) <= 1}

InitTasks ==
    /\ master_index \in TaskIndices
    /\ remote = <<>>
    /\ net = [a \in Addrs |->
                IF a = 1 /\ \E k \in Keys : 1 \in KeyAddrs(master_index, k)
                THEN <<<<1>>>> ELSE <<>>]
    /\ minted = IF Holders(master_index, 1) = {} THEN 0 ELSE 1
    /\ op = IdleOp
    /\ call = IdleOp
    /\ stored = [k \in Keys |-> <<>>]
    /\ nops = 0

TaskStoreStart(t, key, data) ==
    /\ TaskOp(t).pc = "idle"
    /\ nops < MaxOps
    /\ \E nx \in {StoreStartStep(master_index, minted, Begin("store", key, data, FALSE),
                                 "continue", "continue", TRUE)} :
          /\ nx.minted <= MaxPads
          /\ master_index' = nx.mi
          /\ minted' = nx.minted
          /\ SetTask(t, nx.op)
    /\ nops' = nops + 1
    /\ UNCHANGED <<remote, net, stored>>

TaskUpdateStart(t, key, data) ==
    /\ TaskOp(t).pc = "idle"
    /\ nops < MaxOps
    /\ \E nx \in {UpdateStartStep(master_index, minted, Begin("update", key, data, FALSE),
                                  "continue", TRUE)} :
          /\ nx.minted <= MaxPads
          /\ master_index' = nx.mi
          /\ minted' = nx.minted
          /\ SetTask(t, nx.op)
    /\ nops' = nops + 1
    /\ UNCHANGED <<remote, net, stored>>

TaskRemove(t, key) ==
    /\ TaskOp(t).pc = "idle"
    /\ nops < MaxOps
    /\ master_index' = RemoveStep(master_index, key)
    /\ SetTask(t, Finish(Begin("remove", key, <<>>, FALSE), RemoveResult(master_index, key)))
    /\ nops' = nops + 1
    /\ UNCHANGED <<remote, net, minted, stored>>

\* The network applies one chunk write of task t.
TaskNetWrite(t, i) ==
    /\ TaskOp(t).pc = "writing"
    /\ i \in TaskOp(t).todo
    /\ net' = write_pad_data(net, WriteTarget(TaskOp(t), i), TaskOp(t).chunks[i])
    /\ SetTask(t, [TaskOp(t) EXCEPT !.todo = @ \ {i}, !.landed = @ \cup {i},
                                    !.net_ops = @ + 1])
    /\ UNCHANGED <<master_index, remote, minted, stored, nops>>

TaskChunkWritten(t, i) ==
    /\ TaskOp(t).pc = "writing"
    /\ i \in TaskOp(t).landed
    /\ IF TaskOp(t).kind = "store"
       THEN \E nx \in {StoreChunkWrittenStep(master_index, TaskOp(t), i, "continue")} :
                master_index' = nx.mi /\ SetTask(t, nx.op)
       ELSE /\ SetTask(t, UpdateChunkWrittenStep(TaskOp(t), i, "continue"))
            /\ UNCHANGED master_index
    /\ UNCHANGED <<remote, net, minted, stored, nops>>

TaskWriteFailed(t, i) ==
    /\ TaskOp(t).pc = "writing"
    /\ i \in TaskOp(t).todo
    /\ IF TaskOp(t).kind = "store"
       THEN \E nx \in {StoreWriteFailedStep(master_index, TaskOp(t), i)} :
                master_index' = nx.mi /\ SetTask(t, nx.op)
       ELSE /\ SetTask(t, Finish([TaskOp(t) EXCEPT !.fault = TRUE, !.todo = @ \ {i},
                                                   !.failed = @ \cup {i - 1},
                                                   !.net_ops = @ + 1],
                                 "Storage"))
            /\ UNCHANGED master_index
    /\ UNCHANGED <<remote, net, minted, stored, nops>>

TaskFinish(t) ==
    /\ TaskOp(t).pc = "writing"
    /\ TaskOp(t).todo = {} /\ TaskOp(t).landed = {}
    /\ \E nx \in {IF TaskOp(t).kind = "store"
                  THEN StoreFinishStep(master_index, TaskOp(t), "continue")
                  ELSE UpdateFinishStep(master_index, TaskOp(t), "continue")} :
          master_index' = nx.mi /\ SetTask(t, nx.op)
    /\ UNCHANGED <<remote, net, minted, stored, nops>>

TaskReturn(t) ==
    /\ TaskOp(t).pc = "done"
    /\ SetTask(t, IdleOp)
    /\ UNCHANGED <<master_index, remote, net, minted, stored, nops>>

NextTasks ==
    \/ \E t \in Tasks, key \in Keys, data \in {<<>>, <<1>>, <<1, 2, 3>>} : TaskStoreStart(t, key, data)
    \/ \E t \in Tasks, key \in Keys, data \in {<<>>, <<1>>, <<1, 2, 3>>} : TaskUpdateStart(t, key, data)
    \/ \E t \in Tasks, key \in Keys : TaskRemove(t, key)
    \/ \E t \in Tasks, i \in 1 .. MaxPads : TaskNetWrite(t, i)
    \/ \E t \in Tasks, i \in 1 .. MaxPads : TaskChunkWritten(t, i)
    \/ \E t \in Tasks, i \in 1 .. MaxPads : TaskWriteFailed(t, i)
    \/ \E t \in Tasks : TaskFinish(t)
    \/ \E t \in Tasks : TaskReturn(t)

SpecTasks == InitTasks /\ [][NextTasks]_vars

\* The pad addresses the chunk writes in flight of an operation go to.
WritesInFlight(o) ==
    IF o.pc = "writing" THEN {WriteTarget(o, i) : i \in o.todo} ELSE {}

ConcurrentStoresOneWins ==
    (/\ op.kind = "store" /\ call.kind = "store"
     /\ op.pc = "done" /\ call.pc = "done"
     /\ op.key = call.key
     /\ op.pre.index[op.key] = <<>> /\ call.pre.index[call.key] = <<>>)
        => /\ ~(op.result = "Ok" /\ call.result = "Ok")
           /\ (SeqAddrs(op.acquired) \cup SeqAddrs(call.acquired))
                 \subseteq (KeyAddrs(master_index, op.key) \cup FreeAddrs(master_index))

====
